---- MODULE Spec2Model ----
(***************************************************************************)
(* The unified HTTP + SOCKS5 proxy of src/server.js (class                 *)
(* UnifiedProxyServer, lines 363-1048) as a state machine.                 *)
(*                                                                         *)
(* Buffers and strings are sequences of numbers: a Buffer is a sequence of *)
(* bytes 0..255, a JavaScript string a sequence of code units.  Every text *)
(* the program compares with or writes is spelled out in bytes, with the   *)
(* text in a comment beside it.                                            *)
(*                                                                         *)
(* Each action is one callback of the event loop, run to completion: the   *)
(* listener of a socket event with every call it makes.                    *)
(***************************************************************************)
EXTENDS Integers, Sequences, FiniteSets, TLC

\* ------------------------------------------------------------------------
\* JavaScript values the handlers compute with
\* ------------------------------------------------------------------------

\* `undefined` (an index past the end of a Buffer) and NaN (arithmetic on it).
Undef == 0 - 1

Min(a, b) == IF a < b THEN a ELSE b

\* data[i], zero-based: undefined outside the buffer (also for a NaN index).
At(data, i) == IF i >= 0 /\ i < Len(data) THEN data[i + 1] ELSE Undef

\* a + b in JavaScript numbers: NaN as soon as an operand is undefined or NaN.
Plus(a, b) == IF a = Undef \/ b = Undef THEN Undef ELSE a + b

\* data.slice(s, e): a NaN bound counts as 0, bounds are clamped to the
\* length, an empty range gives the empty buffer.
Slice(data, s, e) ==
    LET s0 == IF s = Undef THEN 0 ELSE Min(s, Len(data))
        e0 == IF e = Undef THEN 0 ELSE Min(e, Len(data))
    IN  IF s0 < e0 THEN SubSeq(data, s0 + 1, e0) ELSE <<>>

\* The code unit U+FFFD that UTF-8 decoding puts for a byte that is no text.
ReplacementChar == 65533

\* buffer.toString(): UTF-8 decoding.  ASCII bytes decode to themselves; the
\* other bytes of the inputs drawn here (0xAA, 0xFF: a continuation byte with
\* no lead byte, and a byte no UTF-8 text holds) each decode to U+FFFD.
ToStr(buf) == [i \in 1..Len(buf) |-> IF buf[i] < 128 THEN buf[i] ELSE ReplacementChar]

\* str.startsWith(tok)
StartsWith(str, tok) == Len(str) >= Len(tok) /\ SubSeq(str, 1, Len(tok)) = tok

\* array.includes(x)
Includes(arr, x) == \E i \in 1..Len(arr) : arr[i] = x

\* str.indexOf(sep), zero-based; -1 when absent.
IndexOf(str, sep) ==
    LET hits == {i \in 1..(Len(str) - Len(sep) + 1) : SubSeq(str, i, i + Len(sep) - 1) = sep}
    IN  IF hits = {} THEN 0 - 1
        ELSE (CHOOSE i \in hits : \A j \in hits : i <= j) - 1

\* str.split(sep) for a non-empty separator.
RECURSIVE Split(_, _)
Split(str, sep) ==
    LET k == IndexOf(str, sep)
    IN  IF k < 0 THEN <<str>>
        ELSE <<SubSeq(str, 1, k)>> \o Split(SubSeq(str, k + Len(sep) + 1, Len(str)), sep)

\* The decimal digits of a non-negative number, as text.
RECURSIVE Dec(_)
Dec(n) == IF n < 10 THEN <<48 + n>> ELSE Dec(n \div 10) \o <<48 + (n % 10)>>

\* StrUndefined is the text 'undefined'
StrUndefined ==
    <<117, 110, 100, 101, 102, 105, 110, 101, 100>>

\* `${v}` in a template literal, for a byte or undefined.
Show(v) == IF v = Undef THEN StrUndefined ELSE Dec(v)

\* ToInt32 of a byte or undefined, as the operands of << and | are read.
ToInt32(v) == IF v = Undef THEN 0 ELSE v

\* ------------------------------------------------------------------------
\* SOCKS5 protocol constants (src/server.js 374-387)
\* ------------------------------------------------------------------------

SOCKS_VERSION == 5
NO_AUTH == 0
USERNAME_PASSWORD == 2
NO_ACCEPTABLE == 255
CONNECT == 1
IPv4 == 1
DOMAIN_NAME == 3
IPv6 == 4

\* this.socks5Auth: null, or a credential.  The credential is the one the
\* source shows for enabling authentication (line 1025).
\* CredUser is the text 'telegram'
CredUser ==
    <<116, 101, 108, 101, 103, 114, 97, 109>>
\* CredPass is the text 'secure123'
CredPass ==
    <<115, 101, 99, 117, 114, 101, 49, 50, 51>>
NoAuthConfig == [set |-> FALSE, username |-> <<>>, password |-> <<>>]
AuthConfig == [set |-> TRUE, username |-> CredUser, password |-> CredPass]

\* ------------------------------------------------------------------------
\* SOCKS5 handlers as functions of the buffer: what they write and whether
\* they throw
\* ------------------------------------------------------------------------

\* The methods array handleSOCKS5Handshake collects: data[2 .. 2+methodCount-1],
\* undefined where the buffer has ended.
MethodsOf(data) == [i \in 1..At(data, 1) |-> At(data, i + 1)]

\* ChosenMethod that never asks for a credential: no-auth whenever offered.
ChosenMethod_IgnoresAuth(auth, data) ==
    IF Includes(MethodsOf(data), NO_AUTH) THEN NO_AUTH ELSE NO_ACCEPTABLE

\* The method chosen: username/password when a credential is configured,
\* no-auth otherwise, and 0xFF when that one is not among the methods.
ChosenMethod(auth, data) ==
    IF auth.set
    THEN IF Includes(MethodsOf(data), USERNAME_PASSWORD) THEN USERNAME_PASSWORD ELSE NO_ACCEPTABLE
    ELSE IF Includes(MethodsOf(data), NO_AUTH) THEN NO_AUTH ELSE NO_ACCEPTABLE

\* handleSOCKS5Handshake: writes <<5, chosenMethod>>; throws before writing on
\* a buffer shorter than 2 or a wrong version, after writing on 0xFF.
handleSOCKS5Handshake(auth, data) ==
    IF Len(data) < 2 THEN [writes |-> <<>>, throws |-> TRUE]
    ELSE IF At(data, 0) # SOCKS_VERSION THEN [writes |-> <<>>, throws |-> TRUE]
    ELSE [writes |-> << <<SOCKS_VERSION, ChosenMethod(auth, data)>> >>,
          throws |-> ChosenMethod(auth, data) = NO_ACCEPTABLE]

\* The fields handleSOCKS5Authentication reads.
AuthUsername(data) == ToStr(Slice(data, 2, Plus(2, At(data, 1))))
AuthPasswordLength(data) == At(data, Plus(2, At(data, 1)))
AuthPassword(data) ==
    ToStr(Slice(data, Plus(3, At(data, 1)),
                Plus(Plus(3, At(data, 1)), AuthPasswordLength(data))))

\* AuthSuccess comparing the username alone.
AuthSuccess_UsernameOnly(auth, data) == AuthUsername(data) = auth.username

\* success: both fields equal the configured ones.
AuthSuccess(auth, data) ==
    AuthUsername(data) = auth.username /\ AuthPassword(data) = auth.password

\* handleSOCKS5Authentication: nothing when no credential is configured;
\* otherwise writes <<1, 0>>, or writes <<1, 1>> and throws.
handleSOCKS5Authentication(auth, data) ==
    IF ~auth.set THEN [writes |-> <<>>, throws |-> FALSE]
    ELSE [writes |-> << <<1, IF AuthSuccess(auth, data) THEN 0 ELSE 1>> >>,
          throws |-> ~AuthSuccess(auth, data)]

\* sendSOCKS5Error: the 10-byte reply carrying errorCode.
SOCKS5Error(errorCode) == <<SOCKS_VERSION, errorCode, 0, IPv4, 0, 0, 0, 0, 0, 0>>

\* The 10-byte success reply createSOCKS5Tunnel writes on 'connect'.
SOCKS5Success == <<SOCKS_VERSION, 0, 0, IPv4, 0, 0, 0, 0, 0, 0>>

\* The target handleSOCKS5Request parses.
RequestHost(data) ==
    IF At(data, 3) = IPv4
    THEN Show(At(data, 4)) \o <<46>> \o Show(At(data, 5)) \o <<46>>
         \o Show(At(data, 6)) \o <<46>> \o Show(At(data, 7))
    ELSE ToStr(Slice(data, 5, Plus(5, At(data, 4))))

RequestOffset(data) == IF At(data, 3) = IPv4 THEN 8 ELSE Plus(5, At(data, 4))

\* RequestPort reading the low byte first.
RequestPort_LowByteFirst(data) ==
    ToInt32(At(data, RequestOffset(data)))
    + ToInt32(At(data, Plus(RequestOffset(data), 1))) * 256

RequestPort(data) ==
    ToInt32(At(data, RequestOffset(data))) * 256
    + ToInt32(At(data, Plus(RequestOffset(data), 1)))

\* handleSOCKS5Request testing the address type before the command.
handleSOCKS5Request_AddressTypeFirst(data) ==
    IF Len(data) < 4
    THEN [writes |-> <<>>, throws |-> TRUE, host |-> <<>>, port |-> 0]
    ELSE IF At(data, 3) \notin {IPv4, DOMAIN_NAME}
    THEN [writes |-> <<SOCKS5Error(8)>>, throws |-> TRUE, host |-> <<>>, port |-> 0]
    ELSE IF At(data, 0) # SOCKS_VERSION \/ At(data, 1) # CONNECT
    THEN [writes |-> <<SOCKS5Error(7)>>, throws |-> TRUE, host |-> <<>>, port |-> 0]
    ELSE [writes |-> <<>>, throws |-> FALSE,
          host |-> RequestHost(data), port |-> RequestPort(data)]

\* handleSOCKS5Request taking every address type other than IPv4 for a
\* length-prefixed name.
handleSOCKS5Request_AnyAddressType(data) ==
    IF Len(data) < 4
    THEN [writes |-> <<>>, throws |-> TRUE, host |-> <<>>, port |-> 0]
    ELSE IF At(data, 0) # SOCKS_VERSION \/ At(data, 1) # CONNECT
    THEN [writes |-> <<SOCKS5Error(7)>>, throws |-> TRUE, host |-> <<>>, port |-> 0]
    ELSE [writes |-> <<>>, throws |-> FALSE,
          host |-> RequestHost(data), port |-> RequestPort(data)]

\* handleSOCKS5Request: throws on a buffer shorter than 4; replies 0x07 and
\* throws on a wrong version or command; replies 0x08 and throws on an address
\* type other than IPv4 and domain; otherwise calls createSOCKS5Tunnel.
handleSOCKS5Request(data) ==
    IF Len(data) < 4
    THEN [writes |-> <<>>, throws |-> TRUE, host |-> <<>>, port |-> 0]
    ELSE IF At(data, 0) # SOCKS_VERSION \/ At(data, 1) # CONNECT
    THEN [writes |-> <<SOCKS5Error(7)>>, throws |-> TRUE, host |-> <<>>, port |-> 0]
    ELSE IF At(data, 3) \notin {IPv4, DOMAIN_NAME}
    THEN [writes |-> <<SOCKS5Error(8)>>, throws |-> TRUE, host |-> <<>>, port |-> 0]
    ELSE [writes |-> <<>>, throws |-> FALSE,
          host |-> RequestHost(data), port |-> RequestPort(data)]

\* ------------------------------------------------------------------------
\* Protocol detection (detectAndRouteProtocol)
\* ------------------------------------------------------------------------

\* TokGET .. TokCONNECT are the texts 'GET ', 'POST ', 'PUT ', 'DELETE ',
\* 'HEAD ', 'OPTIONS ', 'CONNECT '
TokGET == <<71, 69, 84, 32>>
TokPOST == <<80, 79, 83, 84, 32>>
TokPUT == <<80, 85, 84, 32>>
TokDELETE == <<68, 69, 76, 69, 84, 69, 32>>
TokHEAD == <<72, 69, 65, 68, 32>>
TokOPTIONS == <<79, 80, 84, 73, 79, 78, 83, 32>>
TokCONNECT == <<67, 79, 78, 78, 69, 67, 84, 32>>

\* isHTTP: dataStr starts with one of the seven method tokens.
isHTTP(firstData) ==
    \E tok \in {TokGET, TokPOST, TokPUT, TokDELETE, TokHEAD, TokOPTIONS, TokCONNECT} :
        StartsWith(ToStr(firstData), tok)

\* isSOCKS5: first byte 0x05 and at least 3 bytes.
isSOCKS5(firstData) == At(firstData, 0) = SOCKS_VERSION /\ Len(firstData) >= 3

\* detectAndRouteProtocol taking any buffer that starts with 0x05 for SOCKS5.
detectAndRouteProtocol_NoLengthTest(firstData) ==
    IF isHTTP(firstData) THEN [handler |-> "http", data |-> firstData]
    ELSE IF At(firstData, 0) = SOCKS_VERSION THEN [handler |-> "socks5", data |-> firstData]
    ELSE [handler |-> "http", data |-> firstData]

\* detectAndRouteProtocol: the handler called and the buffer it is given.
\* The HTTP test comes first, then the SOCKS5 test, then the HTTP fallback.
detectAndRouteProtocol(firstData) ==
    IF isHTTP(firstData) THEN [handler |-> "http", data |-> firstData]
    ELSE IF isSOCKS5(firstData) THEN [handler |-> "socks5", data |-> firstData]
    ELSE [handler |-> "http", data |-> firstData]

\* ------------------------------------------------------------------------
\* HTTP request parsing and routing (parseHTTPRequest, routeHTTPRequest)
\* ------------------------------------------------------------------------

CRLF == <<13, 10>>
\* StrOPTIONS, StrCONNECT are the texts 'OPTIONS', 'CONNECT'
StrOPTIONS == <<79, 80, 84, 73, 79, 78, 83>>
StrCONNECT == <<67, 79, 78, 78, 69, 67, 84>>
\* StrHttpScheme, StrHttpsScheme are the texts 'http://', 'https://'
StrHttpScheme == <<104, 116, 116, 112, 58, 47, 47>>
StrHttpsScheme == <<104, 116, 116, 112, 115, 58, 47, 47>>
\* HdrXTarget is the text 'x-target-url'
HdrXTarget == <<120, 45, 116, 97, 114, 103, 101, 116, 45, 117, 114, 108>>
\* QueryUrl is the text 'url='
QueryUrl == <<117, 114, 108, 61>>

\* key.toLowerCase() on ASCII.
ToLower(str) == [i \in 1..Len(str) |-> IF str[i] >= 65 /\ str[i] <= 90 THEN str[i] + 32 ELSE str[i]]

\* The header lines parseHTTPRequest reads: lines[1..] up to the first empty one.
HeaderLines(lines) ==
    LET empties == {i \in 2..Len(lines) : lines[i] = <<>>}
        stop == IF empties = {} THEN Len(lines) + 1
                ELSE CHOOSE i \in empties : \A j \in empties : i <= j
    IN  SubSeq(lines, 2, stop - 1)

\* headers[name]: the value of the last header line 'Name: value' with that
\* name whose key and value are both non-empty; <<>> (undefined) when absent.
HeaderValue(lines, name) ==
    LET hl == HeaderLines(lines)
        ok == {i \in 1..Len(hl) :
                  /\ Len(Split(hl[i], <<58, 32>>)) >= 2
                  /\ Split(hl[i], <<58, 32>>)[1] # <<>>
                  /\ Split(hl[i], <<58, 32>>)[2] # <<>>
                  /\ ToLower(Split(hl[i], <<58, 32>>)[1]) = name}
    IN  IF ok = {} THEN <<>>
        ELSE Split(hl[CHOOSE i \in ok : \A j \in ok : j <= i], <<58, 32>>)[2]

\* parseHTTPRequest: method, url (hasUrl FALSE: undefined) and the one header
\* the handlers read.
parseHTTPRequest(firstData) ==
    LET lines == Split(ToStr(firstData), CRLF)
        requestLine == Split(lines[1], <<32>>)
    IN  [method |-> requestLine[1],
         hasUrl |-> Len(requestLine) >= 2,
         url |-> IF Len(requestLine) >= 2 THEN requestLine[2] ELSE <<>>,
         xTargetUrl |-> HeaderValue(lines, HdrXTarget)]

\* The first position (one-based) of a byte of stops in str, or Len(str)+1.
FirstOf(str, stops) ==
    LET hits == {i \in 1..Len(str) : str[i] \in stops}
    IN  IF hits = {} THEN Len(str) + 1 ELSE CHOOSE i \in hits : \A j \in hits : i <= j

\* url.parse(u).pathname: what follows the scheme and host, up to '?' or '#';
\* '/' for an absolute URL with no path; <<>> (null) for the empty string.
PathName(u) ==
    LET scheme == IF StartsWith(u, StrHttpsScheme) THEN Len(StrHttpsScheme)
                  ELSE IF StartsWith(u, StrHttpScheme) THEN Len(StrHttpScheme) ELSE 0
        afterScheme == SubSeq(u, scheme + 1, Len(u))
        afterHost == IF scheme = 0 THEN u
                     ELSE SubSeq(afterScheme, FirstOf(afterScheme, {47, 63, 35}), Len(afterScheme))
        path == SubSeq(afterHost, 1, FirstOf(afterHost, {63, 35}) - 1)
    IN  IF scheme > 0 /\ path = <<>> THEN <<47>> ELSE path

\* url.parse(u, true).query.url: the value of the first url= parameter; <<>>
\* when there is none.
QueryParamUrl(u) ==
    LET q == FirstOf(u, {63})
        query == SubSeq(u, q + 1, FirstOf(u, {35}) - 1)
        params == IF q > Len(u) THEN <<>> ELSE Split(query, <<38>>)
        hits == {i \in 1..Len(params) : StartsWith(params[i], QueryUrl)}
    IN  IF hits = {} THEN <<>>
        ELSE LET p == params[CHOOSE i \in hits : \A j \in hits : i <= j]
             IN  SubSeq(p, Len(QueryUrl) + 1, Len(p))

\* PathRoot .. PathStats are the texts '/', '/health', '/proxy', '/stats'
PathRoot == <<47>>
PathHealth == <<47, 104, 101, 97, 108, 116, 104>>
PathProxy == <<47, 112, 114, 111, 120, 121>>
PathStats == <<47, 115, 116, 97, 116, 115>>

\* The target URL handleAPIProxy passes on: the header, else the query parameter.
APIProxyTarget(req) ==
    IF req.xTargetUrl # <<>> THEN req.xTargetUrl ELSE QueryParamUrl(req.url)

\* routeHTTPRequest: the branch taken.  "error" is the catch block: url.parse
\* throws a TypeError on an undefined url.
routeHTTPRequest(req) ==
    IF req.method = StrOPTIONS THEN "options"
    ELSE IF req.method = StrCONNECT THEN "connect"
    ELSE IF ~req.hasUrl THEN "error"
    ELSE IF PathName(req.url) = PathRoot THEN "root"
    ELSE IF PathName(req.url) = PathHealth THEN "health"
    ELSE IF PathName(req.url) = PathProxy
         THEN IF APIProxyTarget(req) = <<>> THEN "badRequest" ELSE "proxy"
    ELSE IF PathName(req.url) = PathStats THEN "stats"
    ELSE IF StartsWith(req.url, StrHttpScheme) \/ StartsWith(req.url, StrHttpsScheme) THEN "proxy"
    ELSE "notFound"

\* ------------------------------------------------------------------------
\* HTTP CONNECT (handleHTTPConnect) and the response object
\* ------------------------------------------------------------------------

\* parseInt's reading of a text, step by step: leading spaces are skipped,
\* then a sign, then a '0x' or '0X' prefix; the digits are the longest run of
\* hexadecimal digits after such a prefix, of decimal digits otherwise.
AfterSpaces(str) == SubSeq(str, FirstOf(str, (0..65535) \ {32}), Len(str))

HasSign(str) == str # <<>> /\ str[1] \in {43, 45}

AfterSign(str) == IF HasSign(str) THEN SubSeq(str, 2, Len(str)) ELSE str

HasHexPrefix(str) == Len(str) >= 2 /\ str[1] = 48 /\ str[2] \in {88, 120}

DecimalDigits == 48..57
HexDigits == (48..57) \cup (65..70) \cup (97..102)

DigitRun(str, digits) == SubSeq(str, 1, FirstOf(str, (0..65535) \ digits) - 1)

IntBody(str) ==
    LET unsigned == AfterSign(AfterSpaces(str))
    IN  [negative |-> HasSign(AfterSpaces(str)) /\ AfterSpaces(str)[1] = 45,
         hex |-> HasHexPrefix(unsigned),
         digits |-> IF HasHexPrefix(unsigned)
                    THEN DigitRun(SubSeq(unsigned, 3, Len(unsigned)), HexDigits)
                    ELSE DigitRun(unsigned, DecimalDigits)]

RECURSIVE DigitsValue(_)
DigitsValue(ds) ==
    IF ds = <<>> THEN 0
    ELSE DigitsValue(SubSeq(ds, 1, Len(ds) - 1)) * 10 + (ds[Len(ds)] - 48)

\* The value of a run of hexadecimal digits.
RECURSIVE HexValue(_)
HexValue(ds) ==
    IF ds = <<>> THEN 0
    ELSE LET b == ds[Len(ds)]
             v == IF b <= 57 THEN b - 48 ELSE IF b <= 70 THEN b - 55 ELSE b - 87
         IN  HexValue(SubSeq(ds, 1, Len(ds) - 1)) * 16 + v

\* parseInt(x) || 443 that keeps a parsed 0 (a test for NaN alone).
PortOrDefault_KeepsZero(defined, str) ==
    LET body == IntBody(str)
        magnitude == IF body.hex THEN HexValue(body.digits) ELSE DigitsValue(body.digits)
        value == IF body.negative THEN 0 - magnitude ELSE magnitude
    IN  IF ~defined \/ body.digits = <<>> THEN 443 ELSE value

\* parseInt(x) || 443, for x a string or (defined FALSE) undefined: 443 when
\* parseInt gives NaN or 0.
PortOrDefault(defined, str) ==
    LET body == IntBody(str)
        magnitude == IF body.hex THEN HexValue(body.digits) ELSE DigitsValue(body.digits)
        value == IF body.negative THEN 0 - magnitude ELSE magnitude
    IN  IF ~defined \/ body.digits = <<>> \/ value = 0 THEN 443 ELSE value

\* handleHTTPConnect with the counter incremented after net.createConnection
\* has returned.
handleHTTPConnect_CountsAfterCreate(req) ==
    IF ~req.hasUrl
    THEN [throws |-> TRUE, counted |-> FALSE, host |-> <<>>, port |-> 0]
    ELSE LET parts == Split(req.url, <<58>>)
             port == PortOrDefault(Len(parts) >= 2, IF Len(parts) >= 2 THEN parts[2] ELSE <<>>)
         IN  [throws |-> port < 0 \/ port > 65535, counted |-> ~(port < 0 \/ port > 65535),
              host |-> parts[1], port |-> port]

\* handleHTTPConnect up to net.createConnection.  An undefined url makes
\* req.url.split throw before the counter is touched; a port outside 0..65535
\* makes net.createConnection throw after it.  Both land in the catch block.
handleHTTPConnect(req) ==
    IF ~req.hasUrl
    THEN [throws |-> TRUE, counted |-> FALSE, host |-> <<>>, port |-> 0]
    ELSE LET parts == Split(req.url, <<58>>)
             port == PortOrDefault(Len(parts) >= 2, IF Len(parts) >= 2 THEN parts[2] ELSE <<>>)
         IN  [throws |-> port < 0 \/ port > 65535, counted |-> TRUE,
              host |-> parts[1], port |-> port]

\* Str200Established is the text 'HTTP/1.1 200 Connection Established\r\n\r\n'
Str200Established ==
    <<72, 84, 84, 80, 47, 49, 46, 49, 32, 50, 48, 48, 32, 67, 111, 110, 110, 101, 99, 116, 105, 111, 110, 32, 69, 115, 116, 97, 98, 108, 105, 115, 104, 101, 100, 13, 10, 13, 10>>
\* Str502BadGateway is the text 'HTTP/1.1 502 Bad Gateway\r\n\r\n'
Str502BadGateway ==
    <<72, 84, 84, 80, 47, 49, 46, 49, 32, 53, 48, 50, 32, 66, 97, 100, 32, 71, 97, 116, 101, 119, 97, 121, 13, 10, 13, 10>>

\* StatusPrefix is the text 'HTTP/1.1 '
StatusPrefix == <<72, 84, 84, 80, 47, 49, 46, 49, 32>>
\* getStatusText without its 502 entry
StatusText_No502(code) ==
    CASE code = 200 -> <<79, 75>>
      [] code = 400 -> <<66, 97, 100, 32, 82, 101, 113, 117, 101, 115, 116>>
      [] code = 404 -> <<78, 111, 116, 32, 70, 111, 117, 110, 100>>
      [] code = 500 -> <<73, 110, 116, 101, 114, 110, 97, 108, 32, 83, 101, 114, 118, 101, 114, 32, 69, 114, 114, 111, 114>>
      [] OTHER -> <<85, 110, 107, 110, 111, 119, 110>>

\* getStatusText
StatusText(code) ==
    CASE code = 200 -> <<79, 75>>
      [] code = 400 -> <<66, 97, 100, 32, 82, 101, 113, 117, 101, 115, 116>>
      [] code = 404 -> <<78, 111, 116, 32, 70, 111, 117, 110, 100>>
      [] code = 500 -> <<73, 110, 116, 101, 114, 110, 97, 108, 32, 83, 101, 114, 118, 101, 114, 32, 69, 114, 114, 111, 114>>
      [] code = 502 -> <<66, 97, 100, 32, 71, 97, 116, 101, 119, 97, 121>>
      [] OTHER -> <<85, 110, 107, 110, 111, 119, 110>>

\* The headers routeHTTPRequest sets on every response, as sendHeaders
\* renders them (setHeader lower-cases the names):
\* 'access-control-allow-origin: *\r\n'
\* 'access-control-allow-methods: GET, POST, PUT, DELETE, OPTIONS, CONNECT\r\n'
\* 'access-control-allow-headers: Content-Type, Authorization, X-Target-URL\r\n'
\* 'server: Unified-Proxy/1.0\r\n'
HdrCORS ==
    <<97, 99, 99, 101, 115, 115, 45, 99, 111, 110, 116, 114, 111, 108, 45, 97, 108, 108, 111, 119, 45, 111, 114, 105, 103, 105, 110, 58, 32, 42, 13, 10, 97, 99, 99, 101, 115, 115, 45, 99, 111, 110, 116, 114, 111, 108, 45, 97, 108, 108, 111, 119, 45, 109, 101, 116, 104, 111, 100, 115, 58, 32, 71, 69, 84, 44, 32, 80, 79, 83, 84, 44, 32, 80, 85, 84, 44, 32, 68, 69, 76, 69, 84, 69, 44, 32, 79, 80, 84, 73, 79, 78, 83, 44, 32, 67, 79, 78, 78, 69, 67, 84, 13, 10, 97, 99, 99, 101, 115, 115, 45, 99, 111, 110, 116, 114, 111, 108, 45, 97, 108, 108, 111, 119, 45, 104, 101, 97, 100, 101, 114, 115, 58, 32, 67, 111, 110, 116, 101, 110, 116, 45, 84, 121, 112, 101, 44, 32, 65, 117, 116, 104, 111, 114, 105, 122, 97, 116, 105, 111, 110, 44, 32, 88, 45, 84, 97, 114, 103, 101, 116, 45, 85, 82, 76, 13, 10, 115, 101, 114, 118, 101, 114, 58, 32, 85, 110, 105, 102, 105, 101, 100, 45, 80, 114, 111, 120, 121, 47, 49, 46, 48, 13, 10>>
\* HdrText is the text 'content-type: text/plain\r\n'
HdrText ==
    <<99, 111, 110, 116, 101, 110, 116, 45, 116, 121, 112, 101, 58, 32, 116, 101, 120, 116, 47, 112, 108, 97, 105, 110, 13, 10>>
\* HdrJson is the text 'content-type: application/json\r\n'
HdrJson ==
    <<99, 111, 110, 116, 101, 110, 116, 45, 116, 121, 112, 101, 58, 32, 97, 112, 112, 108, 105, 99, 97, 116, 105, 111, 110, 47, 106, 115, 111, 110, 13, 10>>

\* sendHeaders: the status line, the header lines and the empty line.
sendHeaders(statusCode, headers) ==
    StatusPrefix \o Dec(statusCode) \o <<32>> \o StatusText(statusCode) \o CRLF
    \o headers \o CRLF

\* The bodies of the local endpoints are reporting payloads (status text and
\* JSON with timestamps and counters); each is stood for by its name in braces.
\* BodyRoot .. BodyError are the texts '{root}', '{health}', '{stats}',
\* '{missing-target}', '{not-found}', '{error}'
BodyRoot == <<123, 114, 111, 111, 116, 125>>
BodyHealth == <<123, 104, 101, 97, 108, 116, 104, 125>>
BodyStats == <<123, 115, 116, 97, 116, 115, 125>>
BodyBadRequest == <<123, 109, 105, 115, 115, 105, 110, 103, 45, 116, 97, 114, 103, 101, 116, 125>>
BodyNotFound == <<123, 110, 111, 116, 45, 102, 111, 117, 110, 100, 125>>
BodyError == <<123, 101, 114, 114, 111, 114, 125>>
\* The bodies proxyRequest ends a response with.
\* BodyBadGateway is the text 'Bad Gateway'
BodyBadGateway == <<66, 97, 100, 32, 71, 97, 116, 101, 119, 97, 121>>

\* LocalResponse with a handleError that writes nothing.
LocalResponse_SilentError(route) ==
    CASE route = "options" -> <<sendHeaders(200, HdrCORS)>>
      [] route = "root" -> <<sendHeaders(200, HdrCORS \o HdrText), BodyRoot>>
      [] route = "health" -> <<sendHeaders(200, HdrCORS \o HdrJson), BodyHealth>>
      [] route = "stats" -> <<sendHeaders(200, HdrCORS \o HdrJson), BodyStats>>
      [] route = "badRequest" -> <<sendHeaders(400, HdrCORS \o HdrJson), BodyBadRequest>>
      [] route = "notFound" -> <<sendHeaders(404, HdrCORS \o HdrJson), BodyNotFound>>
      [] route = "error" -> <<>>

\* The writes of a local endpoint: the head (res.writeHead) and the body
\* (res.end(data)); OPTIONS ends without a body.
LocalResponse(route) ==
    CASE route = "options" -> <<sendHeaders(200, HdrCORS)>>
      [] route = "root" -> <<sendHeaders(200, HdrCORS \o HdrText), BodyRoot>>
      [] route = "health" -> <<sendHeaders(200, HdrCORS \o HdrJson), BodyHealth>>
      [] route = "stats" -> <<sendHeaders(200, HdrCORS \o HdrJson), BodyStats>>
      [] route = "badRequest" -> <<sendHeaders(400, HdrCORS \o HdrJson), BodyBadRequest>>
      [] route = "notFound" -> <<sendHeaders(404, HdrCORS \o HdrJson), BodyNotFound>>
      [] route = "error" -> <<sendHeaders(500, HdrCORS \o HdrJson), BodyError>>

\* ------------------------------------------------------------------------
\* State
\* ------------------------------------------------------------------------

VARIABLES
    process,        \* the Node process: "running", or "exited" (process.exit)
    socks5Auth,     \* this.socks5Auth: the configured credential, or none
    connections,    \* this.connections: the registry of accepted sockets
    stats,          \* this.stats: the four counters
    client,         \* per connection, the accepted (client) socket
    target,         \* per connection, the socket to the destination
    conn,           \* per connection, the handlers' own state
    clientOut,      \* per connection, the writes the client socket took, in order
    targetIn,       \* per connection, the writes the target socket took, in order
    hist,           \* per connection, what was received and when (history)
    currentWorkerIndex,  \* the Express application: the index of the worker to try next
    requests        \* the Express application: per /smart-proxy request, its handler's state

vars == <<process, socks5Auth, connections, stats, client, target, conn, clientOut, targetIn, hist,
          currentWorkerIndex, requests>>

\* The variables of the unified server, and those of the Express application
\* (the first program of src/server.js, lines 1-363).
serverVars == <<process, socks5Auth, connections, stats, client, target, conn, clientOut, targetIn, hist>>
appVars == <<currentWorkerIndex, requests>>

\* The connections of a run.
Conns == DOMAIN client

\* A socket.  st: "idle" (not yet accepted) / "none" (not yet created),
\* "connecting", "open", "destroyed" (destroy() has run, 'close' not yet
\* emitted), "closed" ('close' emitted).  rEnd: the peer's FIN was read ('end'
\* emitted).  wEnd: end() was called on it.
NewClient == [st |-> "idle", rEnd |-> FALSE, wEnd |-> FALSE]
NoTarget == [st |-> "none", rEnd |-> FALSE, wEnd |-> FALSE, host |-> <<>>, port |-> 0]

\* socket.write(bytes): taken while the socket is open and not ended; a
\* destroyed socket drops it.
Writable(sock) == sock.st = "open" /\ ~sock.wEnd
WriteAll(out, sock, writes) == IF Writable(sock) THEN out \o writes ELSE out

\* socket.destroy()
Destroy(sock) ==
    IF sock.st \in {"connecting", "open"} THEN [sock EXCEPT !.st = "destroyed"] ELSE sock

\* socket.end(): ends the writable side; a socket whose readable side has
\* ended too is then destroyed.
End(sock) ==
    IF sock.st = "open" /\ ~sock.wEnd
    THEN [sock EXCEPT !.wEnd = TRUE, !.st = IF sock.rEnd THEN "destroyed" ELSE "open"]
    ELSE sock

\* The peer's FIN on a socket with allowHalfOpen false (the default of
\* net.createServer and net.createConnection): 'end' is emitted, the socket
\* ends its own writable side and is destroyed.
PeerEnd(sock) == [sock EXCEPT !.rEnd = TRUE, !.wEnd = TRUE, !.st = "destroyed"]

\* step: the closure variable of handleSOCKS5Connection.  listening: its 'data'
\* listener is registered.  route: the branch routeHTTPRequest took.  piped:
\* the two pipe() calls have run.  upstream: the request of proxyRequest.
\* headersSent: the response object's flag.  head: the head argument of the
\* allow-list server's 'connect' listener.
NewConn ==
    [proto |-> "none", step |-> "handshake", listening |-> FALSE, route |-> "none",
     piped |-> FALSE, upstream |-> "none", upstreamBody |-> <<>>, headersSent |-> FALSE,
     head |-> <<>>]

NewHist ==
    [firstData |-> <<>>, handler |-> "none", handlerData |-> <<>>,
     authSeen |-> FALSE, authData |-> <<>>, reqSeen |-> FALSE, reqData |-> <<>>,
     attemptAt |-> 0, outcome |-> "none", heard |-> FALSE, targetSent |-> <<>>,
     created |-> 0, dropped |-> <<>>, errored |-> FALSE]

\* The /smart-proxy requests of a run: two, so that one can rotate the shared
\* index between the attempts of the other.
RequestIds == {1, 2}

\* A request not yet received.  pc: where its handler is ("idle", "awaiting"
\* the worker's answer, "done").  attempts: the handler's local counter.
\* tried: the indices of the workers it has called, in order (history).
\* responses: the responses it has sent, in order.
NewRequest == [pc |-> "idle", attempts |-> 0, tried |-> <<>>, responses |-> <<>>]

InitWith(ids) ==
    /\ process = "running"
    /\ socks5Auth \in {NoAuthConfig, AuthConfig}
    /\ connections = {}
    /\ stats = [httpRequests |-> 0, socks5Connections |-> 0, connectTunnels |-> 0, errors |-> 0]
    /\ client = [c \in ids |-> NewClient]
    /\ target = [c \in ids |-> NoTarget]
    /\ conn = [c \in ids |-> NewConn]
    /\ clientOut = [c \in ids |-> <<>>]
    /\ targetIn = [c \in ids |-> <<>>]
    /\ hist = [c \in ids |-> NewHist]
    /\ currentWorkerIndex = 0
    /\ requests = [r \in RequestIds |-> NewRequest]

\* The connections of the runs checked: one connection, from accept to close.
ConnIds == {1}

Init == InitWith(ConnIds)

\* ------------------------------------------------------------------------
\* Exceptions and 'error' events
\* ------------------------------------------------------------------------

\* The functions whose body is a try block with a catch: the 'data' listener
\* of handleSOCKS5Connection is one of them, and so is the handshake call of
\* handleSOCKS5Connection itself.
TryBlocks ==
    {"detectAndRouteProtocol", "handleSOCKS5Connection", "dataListener",
     "routeHTTPRequest", "handleHTTPConnect", "proxyRequest", "parseHTTPRequest"}

\* Caught with the 'data' listener of handleSOCKS5Connection left unguarded.
Caught_ListenerUnguarded(callers) == \E f \in callers : f \in TryBlocks \ {"dataListener"}

\* A throw below these nested callers is caught by one of them.
Caught(callers) == \E f \in callers : f \in TryBlocks

\* The emitters that have an 'error' listener: the accepted socket (start),
\* the target socket (handleHTTPConnect, createSOCKS5Tunnel), the upstream
\* request (proxyRequest).
Listened(emitter) == emitter \in {"socket", "targetSocket", "proxyReq"}

\* process.on('uncaughtException'), reached by a throw that nothing catches
\* and by an 'error' event nothing listens for: proxy.stop() destroys the
\* registered sockets and clears the registry, process.exit(1) ends the
\* process and with it every socket it holds.
uncaughtException ==
    /\ process' = "exited"
    /\ connections' = {}
    /\ client' = [c \in Conns |-> Destroy(client[c])]
    /\ target' = [c \in Conns |-> Destroy(target[c])]
    /\ UNCHANGED <<appVars, socks5Auth, stats, conn, clientOut, targetIn, hist>>

\* ------------------------------------------------------------------------
\* The server's connection listener (start)
\* ------------------------------------------------------------------------

\* net.createServer's callback: the socket joins the registry and gets its
\* 'close', 'error' and once-'data' listeners.
Accept(c) ==
    /\ process = "running"
    /\ client[c].st = "idle"
    /\ client' = [client EXCEPT ![c].st = "open"]
    /\ connections' = connections \cup {c}
    /\ UNCHANGED <<appVars, process, socks5Auth, stats, target, conn, clientOut, targetIn, hist>>

\* A 'data' event can reach a listener: the socket is open and has not read
\* the peer's FIN.
Readable(sock) == sock.st = "open" /\ ~sock.rEnd

\* The once-'data' listener, SOCKS5 branch: detectAndRouteProtocol counts the
\* connection and calls handleSOCKS5Connection, which runs the handshake and,
\* unless it throws, registers the 'data' listener.
FirstDataSOCKS5(c, d) ==
    LET r == detectAndRouteProtocol(d)
        hs == handleSOCKS5Handshake(socks5Auth, r.data)
    IN  /\ process = "running"
        /\ Readable(client[c]) /\ conn[c].proto = "none"
        /\ r.handler = "socks5"
        /\ IF hs.throws /\ ~Caught({"handleSOCKS5Connection", "detectAndRouteProtocol"})
           THEN uncaughtException
           ELSE /\ stats' = [stats EXCEPT !.socks5Connections = @ + 1]
                /\ clientOut' = [clientOut EXCEPT ![c] = WriteAll(@, client[c], hs.writes)]
                /\ client' = [client EXCEPT ![c] = IF hs.throws THEN Destroy(@) ELSE @]
                /\ conn' = [conn EXCEPT ![c].proto = "socks5",
                                        ![c].listening = ~hs.throws,
                                        ![c].step = IF hs.throws THEN "handshake"
                                                    ELSE IF socks5Auth.set THEN "auth" ELSE "request"]
                /\ hist' = [hist EXCEPT ![c].firstData = d, ![c].handler = r.handler,
                                        ![c].handlerData = r.data]
                /\ UNCHANGED <<appVars, process, socks5Auth, connections, target, targetIn>>

\* The once-'data' listener, HTTP branch with a local endpoint:
\* handleHTTPConnection counts the request, parses it and routes it; the
\* endpoint writes its response and ends the socket.  The catch block of
\* routeHTTPRequest (handleError) also counts an error.
FirstDataHTTPLocal(c, d) ==
    LET r == detectAndRouteProtocol(d)
        rt == routeHTTPRequest(parseHTTPRequest(r.data))
    IN  /\ process = "running"
        /\ Readable(client[c]) /\ conn[c].proto = "none"
        /\ r.handler = "http"
        /\ rt \notin {"connect", "proxy"}
        /\ IF rt = "error" /\ ~Caught({"routeHTTPRequest", "detectAndRouteProtocol"})
           THEN uncaughtException
           ELSE /\ stats' = [stats EXCEPT !.httpRequests = @ + 1,
                                          !.errors = IF rt = "error" THEN @ + 1 ELSE @]
                /\ clientOut' = [clientOut EXCEPT ![c] = WriteAll(@, client[c], LocalResponse(rt))]
                /\ client' = [client EXCEPT ![c] = End(@)]
                /\ conn' = [conn EXCEPT ![c].proto = "http", ![c].route = rt, ![c].headersSent = TRUE]
                /\ hist' = [hist EXCEPT ![c].firstData = d, ![c].handler = r.handler,
                                        ![c].handlerData = r.data]
                /\ UNCHANGED <<appVars, process, socks5Auth, connections, target, targetIn>>

\* The forwarding branch counting the connection under both protocols.
FirstDataHTTPProxy_CountsBoth(c, d) ==
    LET r == detectAndRouteProtocol(d)
        rt == routeHTTPRequest(parseHTTPRequest(r.data))
    IN  /\ process = "running"
        /\ Readable(client[c]) /\ conn[c].proto = "none"
        /\ r.handler = "http"
        /\ rt = "proxy"
        /\ stats' = [stats EXCEPT !.httpRequests = @ + 1, !.socks5Connections = @ + 1]
        /\ conn' = [conn EXCEPT ![c].proto = "http", ![c].route = rt, ![c].upstream = "pending",
                                ![c].upstreamBody = <<>>]
        /\ hist' = [hist EXCEPT ![c].firstData = d, ![c].handler = r.handler,
                                ![c].handlerData = r.data]
        /\ UNCHANGED <<appVars, process, socks5Auth, connections, client, target, clientOut, targetIn>>

\* The once-'data' listener, HTTP branch with a request to forward
\* (handleAPIProxy with a target URL, handleHTTPProxy): proxyRequest creates
\* the upstream request and ends it at once, with proxyReq.end() and no
\* write before it: the body it sends upstream (upstreamBody) is empty.
FirstDataHTTPProxy(c, d) ==
    LET r == detectAndRouteProtocol(d)
        rt == routeHTTPRequest(parseHTTPRequest(r.data))
    IN  /\ process = "running"
        /\ Readable(client[c]) /\ conn[c].proto = "none"
        /\ r.handler = "http"
        /\ rt = "proxy"
        /\ stats' = [stats EXCEPT !.httpRequests = @ + 1]
        /\ conn' = [conn EXCEPT ![c].proto = "http", ![c].route = rt, ![c].upstream = "pending",
                                ![c].upstreamBody = <<>>]
        /\ hist' = [hist EXCEPT ![c].firstData = d, ![c].handler = r.handler,
                                ![c].handlerData = r.data]
        /\ UNCHANGED <<appVars, process, socks5Auth, connections, client, target, clientOut, targetIn>>

\* The once-'data' listener, HTTP branch with CONNECT: handleHTTPConnect
\* counts the tunnel and starts the connection to the target; its catch block
\* writes the 502 line and destroys the client socket.
FirstDataHTTPConnect(c, d) ==
    LET r == detectAndRouteProtocol(d)
        req == parseHTTPRequest(r.data)
        hc == handleHTTPConnect(req)
    IN  /\ process = "running"
        /\ Readable(client[c]) /\ conn[c].proto = "none"
        /\ r.handler = "http"
        /\ routeHTTPRequest(req) = "connect"
        /\ IF hc.throws /\ ~Caught({"handleHTTPConnect", "routeHTTPRequest", "detectAndRouteProtocol"})
           THEN uncaughtException
           ELSE /\ stats' = [stats EXCEPT !.httpRequests = @ + 1,
                                          !.connectTunnels = IF hc.counted THEN @ + 1 ELSE @]
                /\ clientOut' = [clientOut EXCEPT ![c] =
                                    IF hc.throws THEN WriteAll(@, client[c], <<Str502BadGateway>>) ELSE @]
                /\ client' = [client EXCEPT ![c] = IF hc.throws THEN Destroy(@) ELSE @]
                /\ target' = [target EXCEPT ![c] =
                                 IF hc.throws THEN @
                                 ELSE [@ EXCEPT !.st = "connecting", !.host = hc.host, !.port = hc.port]]
                /\ conn' = [conn EXCEPT ![c].proto = "http", ![c].route = "connect"]
                /\ hist' = [hist EXCEPT ![c].firstData = d, ![c].handler = r.handler,
                                        ![c].handlerData = r.data,
                                        ![c].attemptAt = Len(clientOut[c]),
                                        ![c].created = IF hc.throws THEN @ ELSE @ + 1]
                /\ UNCHANGED <<appVars, process, socks5Auth, connections, targetIn>>

\* ------------------------------------------------------------------------
\* The 'data' listener of handleSOCKS5Connection
\* ------------------------------------------------------------------------

\* step 'auth': handleSOCKS5Authentication, then step = 'request'; a throw
\* destroys the socket and leaves step as it was.
SOCKS5AuthData(c, d) ==
    LET au == handleSOCKS5Authentication(socks5Auth, d)
    IN  /\ process = "running"
        /\ Readable(client[c]) /\ conn[c].listening /\ conn[c].step = "auth"
        /\ IF au.throws /\ ~Caught({"dataListener"})
           THEN uncaughtException
           ELSE /\ clientOut' = [clientOut EXCEPT ![c] = WriteAll(@, client[c], au.writes)]
                /\ client' = [client EXCEPT ![c] = IF au.throws THEN Destroy(@) ELSE @]
                /\ conn' = [conn EXCEPT ![c].step = IF au.throws THEN @ ELSE "request"]
                /\ hist' = [hist EXCEPT ![c].authSeen = TRUE, ![c].authData = d]
                /\ UNCHANGED <<appVars, process, socks5Auth, connections, stats, target, targetIn>>

\* The most chunks relayed in each direction of one tunnel.
MaxRelay == 1

\* createSOCKS5Tunnel: the target socket starts connecting (its 'connect',
\* 'error' and 'close' listeners and the client's 'close' listener are
\* registered with it).
createSOCKS5Tunnel(tgt, targetHost, targetPort) ==
    [tgt EXCEPT !.st = "connecting", !.host = targetHost, !.port = targetPort]

\* The 'data' listener at step 'request' leaving the step as it is after
\* handleSOCKS5Request has returned.
SOCKS5RequestData_StaysInRequest(c, d) ==
    LET rq == handleSOCKS5Request(d)
    IN  /\ process = "running"
        /\ Readable(client[c]) /\ conn[c].listening /\ conn[c].step = "request"
        /\ hist[c].created < 2
        /\ clientOut' = [clientOut EXCEPT ![c] = WriteAll(@, client[c], rq.writes)]
        /\ client' = [client EXCEPT ![c] = IF rq.throws THEN Destroy(@) ELSE @]
        /\ target' = [target EXCEPT ![c] =
                         IF rq.throws THEN @ ELSE createSOCKS5Tunnel(@, rq.host, rq.port)]
        /\ hist' = [hist EXCEPT ![c].reqSeen = TRUE, ![c].reqData = d,
                                ![c].attemptAt = Len(clientOut[c]),
                                ![c].created = IF rq.throws THEN @ ELSE @ + 1]
        /\ UNCHANGED <<appVars, process, socks5Auth, connections, stats, conn, targetIn>>

\* step 'request': handleSOCKS5Request, then step = 'tunnel'; a throw
\* destroys the socket and leaves step as it was.
SOCKS5RequestData(c, d) ==
    LET rq == handleSOCKS5Request(d)
    IN  /\ process = "running"
        /\ Readable(client[c]) /\ conn[c].listening /\ conn[c].step = "request"
        /\ IF rq.throws /\ ~Caught({"dataListener"})
           THEN uncaughtException
           ELSE /\ clientOut' = [clientOut EXCEPT ![c] = WriteAll(@, client[c], rq.writes)]
                /\ client' = [client EXCEPT ![c] = IF rq.throws THEN Destroy(@) ELSE @]
                /\ target' = [target EXCEPT ![c] =
                                 IF rq.throws THEN @ ELSE createSOCKS5Tunnel(@, rq.host, rq.port)]
                /\ conn' = [conn EXCEPT ![c].step = IF rq.throws THEN @ ELSE "tunnel"]
                /\ hist' = [hist EXCEPT ![c].reqSeen = TRUE, ![c].reqData = d,
                                        ![c].attemptAt = Len(clientOut[c]),
                                        ![c].created = IF rq.throws THEN @ ELSE @ + 1]
                /\ UNCHANGED <<appVars, process, socks5Auth, connections, stats, targetIn>>

\* step 'tunnel', the pipes not yet attached (the target is still
\* connecting): neither branch of the 'data' listener applies and the chunk
\* is read and dropped.
SOCKS5TunnelData(c, b) ==
    /\ process = "running"
    /\ Readable(client[c]) /\ conn[c].listening /\ conn[c].step = "tunnel"
    /\ ~conn[c].piped
    /\ Len(hist[c].dropped) < MaxRelay
    /\ hist' = [hist EXCEPT ![c].dropped = Append(@, b)]
    /\ UNCHANGED <<appVars, process, socks5Auth, connections, stats, client, target, conn, clientOut, targetIn>>

\* A chunk from the client of a CONNECT request whose target is still
\* connecting: the once-'data' listener of start() has fired and been
\* removed, handleHTTPConnect has registered no 'data' listener, and the
\* socket keeps flowing: the chunk is emitted to nobody and is gone.
HTTPConnectData(c, b) ==
    /\ process = "running"
    /\ Readable(client[c]) /\ conn[c].route = "connect"
    /\ target[c].st = "connecting" /\ ~conn[c].piped
    /\ Len(hist[c].dropped) < MaxRelay
    /\ hist' = [hist EXCEPT ![c].dropped = Append(@, b)]
    /\ UNCHANGED <<appVars, process, socks5Auth, connections, stats, client, target, conn, clientOut, targetIn>>

\* ------------------------------------------------------------------------
\* The tunnel: listeners on the target socket, pipes, and the client's ends
\* ------------------------------------------------------------------------

\* ConnectReply through the response object: res.writeHead(200) would send
\* 'HTTP/1.1 200 OK' with the headers routeHTTPRequest has set.
ConnectReply_ViaResponse(proto) ==
    IF proto = "socks5" THEN SOCKS5Success ELSE sendHeaders(200, HdrCORS)

\* What the 'connect' listener writes to the client before piping: the
\* 10-byte success reply (createSOCKS5Tunnel), the 200 line (handleHTTPConnect).
ConnectReply(proto) == IF proto = "socks5" THEN SOCKS5Success ELSE Str200Established

\* ErrorReply with the general-failure code 0x01 in place of 0x05.
ErrorReply_GeneralFailure(proto) ==
    IF proto = "socks5" THEN SOCKS5Error(1) ELSE Str502BadGateway

\* What the target's 'error' listener writes to the client before destroying
\* it: sendSOCKS5Error(0x05) (createSOCKS5Tunnel), the 502 line
\* (handleHTTPConnect).
ErrorReply(proto) == IF proto = "socks5" THEN SOCKS5Error(5) ELSE Str502BadGateway

\* PairedClose without the listeners: a tunnel that only pipes.
PairedClose_PipesOnly(proto) == FALSE

\* Whether the tunnel has the two 'close' listeners that destroy the other
\* socket: createSOCKS5Tunnel registers them, handleHTTPConnect registers none.
PairedClose(proto) == proto = "socks5"

\* A 'connect' listener whose pipe first writes the chunks that came before it.
TargetConnect_FlushesEarlier(c) ==
    /\ process = "running"
    /\ target[c].st = "connecting"
    /\ target' = [target EXCEPT ![c].st = "open", ![c].wEnd = client[c].rEnd]
    /\ clientOut' = [clientOut EXCEPT ![c] =
                        WriteAll(@, client[c], <<ConnectReply(conn[c].proto)>>)]
    /\ conn' = [conn EXCEPT ![c].piped = TRUE]
    /\ targetIn' = [targetIn EXCEPT ![c] = @ \o hist[c].dropped]
    /\ hist' = [hist EXCEPT ![c].outcome = "connected", ![c].heard = Writable(client[c])]
    /\ UNCHANGED <<appVars, process, socks5Auth, connections, stats, client>>

\* The target socket's 'connect': the reply is written and the two sockets
\* are piped into each other.  pipe() from a client socket that has already
\* emitted 'end' ends the target socket's writable side at once.
TargetConnect(c) ==
    /\ process = "running"
    /\ target[c].st = "connecting"
    /\ target' = [target EXCEPT ![c].st = "open", ![c].wEnd = client[c].rEnd]
    /\ clientOut' = [clientOut EXCEPT ![c] =
                        WriteAll(@, client[c], <<ConnectReply(conn[c].proto)>>)]
    /\ conn' = [conn EXCEPT ![c].piped = TRUE]
    /\ hist' = [hist EXCEPT ![c].outcome = "connected", ![c].heard = Writable(client[c])]
    /\ UNCHANGED <<appVars, process, socks5Auth, connections, stats, client, targetIn>>

\* The target socket's 'error', before or after 'connect': the error reply is
\* written to the client and the client socket destroyed; the target socket
\* is destroyed by the error.
TargetError(c) ==
    /\ process = "running"
    /\ target[c].st \in {"connecting", "open"}
    /\ IF ~Listened("targetSocket")
       THEN uncaughtException
       ELSE /\ target' = [target EXCEPT ![c].st = "destroyed"]
            /\ clientOut' = [clientOut EXCEPT ![c] =
                                WriteAll(@, client[c], <<ErrorReply(conn[c].proto)>>)]
            /\ client' = [client EXCEPT ![c] = Destroy(@)]
            /\ hist' = [hist EXCEPT ![c].outcome = IF target[c].st = "connecting" THEN "failed" ELSE @,
                                    ![c].heard = IF target[c].st = "connecting"
                                                 THEN Writable(client[c]) ELSE @]
            /\ UNCHANGED <<appVars, process, socks5Auth, connections, stats, conn, targetIn>>

\* A chunk from the target: targetSocket.pipe(clientSocket) writes it to the client.
TargetData(c, b) ==
    /\ process = "running"
    /\ Readable(target[c]) /\ conn[c].piped
    /\ Len(hist[c].targetSent) < MaxRelay
    /\ clientOut' = [clientOut EXCEPT ![c] = WriteAll(@, client[c], <<b>>)]
    /\ hist' = [hist EXCEPT ![c].targetSent = Append(@, b)]
    /\ UNCHANGED <<appVars, process, socks5Auth, connections, stats, client, target, conn, targetIn>>

\* The target's FIN: the target socket ends and is destroyed; the pipe ends
\* the client socket's writable side.
TargetEnd(c) ==
    /\ process = "running"
    /\ Readable(target[c])
    /\ target' = [target EXCEPT ![c] = PeerEnd(@)]
    /\ client' = [client EXCEPT ![c] = IF conn[c].piped THEN End(@) ELSE @]
    /\ UNCHANGED <<appVars, process, socks5Auth, connections, stats, conn, clientOut, targetIn, hist>>

\* The target socket's 'close': with the paired listener, the client socket
\* is destroyed.
TargetClose(c) ==
    /\ process = "running"
    /\ target[c].st = "destroyed"
    /\ target' = [target EXCEPT ![c].st = "closed"]
    /\ client' = [client EXCEPT ![c] = IF PairedClose(conn[c].proto) THEN Destroy(@) ELSE @]
    /\ UNCHANGED <<appVars, process, socks5Auth, connections, stats, conn, clientOut, targetIn, hist>>

\* A chunk from the client once the pipes are attached:
\* clientSocket.pipe(targetSocket) writes it to the target (the SOCKS5 'data'
\* listener, at step 'tunnel', does nothing with it).
ClientTunnelData(c, b) ==
    /\ process = "running"
    /\ Readable(client[c]) /\ conn[c].piped
    /\ Len(targetIn[c]) < MaxRelay
    /\ Writable(target[c])
    /\ targetIn' = [targetIn EXCEPT ![c] = Append(@, b)]
    /\ UNCHANGED <<appVars, process, socks5Auth, connections, stats, client, target, conn, clientOut, hist>>

\* The client's FIN: the client socket ends and is destroyed; the pipe, when
\* attached, ends the target socket's writable side.
ClientEnd(c) ==
    /\ process = "running"
    /\ Readable(client[c])
    /\ client' = [client EXCEPT ![c] = PeerEnd(@)]
    /\ target' = [target EXCEPT ![c] = IF conn[c].piped THEN End(@) ELSE @]
    /\ UNCHANGED <<appVars, process, socks5Auth, connections, stats, conn, clientOut, targetIn, hist>>

\* The client socket's 'error' (a reset): the listener of start() takes the
\* socket off the registry; the socket is destroyed by the error.
ClientError(c) ==
    /\ process = "running"
    /\ client[c].st = "open"
    /\ IF ~Listened("socket")
       THEN uncaughtException
       ELSE /\ client' = [client EXCEPT ![c].st = "destroyed"]
            /\ connections' = connections \ {c}
            /\ hist' = [hist EXCEPT ![c].errored = TRUE]
            /\ UNCHANGED <<appVars, process, socks5Auth, stats, target, conn, clientOut, targetIn>>

\* The client socket's 'close': the listener of start() takes the socket off
\* the registry; with the paired listener, the target socket is destroyed.
ClientClose(c) ==
    /\ process = "running"
    /\ client[c].st = "destroyed"
    /\ client' = [client EXCEPT ![c].st = "closed"]
    /\ connections' = connections \ {c}
    /\ target' = [target EXCEPT ![c] = IF PairedClose(conn[c].proto) THEN Destroy(@) ELSE @]
    /\ UNCHANGED <<appVars, process, socks5Auth, stats, conn, clientOut, targetIn, hist>>

\* ------------------------------------------------------------------------
\* The upstream request of proxyRequest
\* ------------------------------------------------------------------------

\* The response callback: res.writeHead(statusCode, headers) sends the head;
\* proxyRes is piped into the client socket.
UpstreamResponse(c, statusCode) ==
    /\ process = "running"
    /\ conn[c].upstream = "pending"
    /\ clientOut' = [clientOut EXCEPT ![c] =
                        WriteAll(@, client[c], <<sendHeaders(statusCode, HdrCORS)>>)]
    /\ conn' = [conn EXCEPT ![c].upstream = "responding", ![c].headersSent = TRUE]
    /\ UNCHANGED <<appVars, process, socks5Auth, connections, stats, client, target, targetIn, hist>>

\* The end of the upstream response: the pipe ends the client socket.
UpstreamEnd(c) ==
    /\ process = "running"
    /\ conn[c].upstream = "responding"
    /\ client' = [client EXCEPT ![c] = End(@)]
    /\ conn' = [conn EXCEPT ![c].upstream = "done"]
    /\ UNCHANGED <<appVars, process, socks5Auth, connections, stats, target, clientOut, targetIn, hist>>

\* proxyReq's 'error': res.writeHead(502) and res.end('Bad Gateway').  An error
\* that comes once the response head has gone out finds headersSent set, so
\* sendHeaders returns at once and only the body text is written.
UpstreamError(c) ==
    /\ process = "running"
    /\ conn[c].upstream \in {"pending", "responding"}
    /\ IF ~Listened("proxyReq")
       THEN uncaughtException
       ELSE /\ clientOut' = [clientOut EXCEPT ![c] =
                                WriteAll(@, client[c],
                                         IF conn[c].headersSent
                                         THEN <<BodyBadGateway>>
                                         ELSE <<sendHeaders(502, HdrCORS), BodyBadGateway>>)]
            /\ client' = [client EXCEPT ![c] = End(@)]
            /\ conn' = [conn EXCEPT ![c].upstream = IF @ = "pending" THEN "failed" ELSE "aborted",
                                    ![c].headersSent = TRUE]
            /\ UNCHANGED <<appVars, process, socks5Auth, connections, stats, target, targetIn, hist>>

\* ------------------------------------------------------------------------
\* Shutdown (stop, the SIGINT and SIGTERM listeners)
\* ------------------------------------------------------------------------

\* A shutdown that also starts the counters afresh.
Shutdown_ResetsStats ==
    /\ process = "running"
    /\ process' = "exited"
    /\ connections' = {}
    /\ stats' = [httpRequests |-> 0, socks5Connections |-> 0, connectTunnels |-> 0, errors |-> 0]
    /\ client' = [c \in Conns |-> Destroy(client[c])]
    /\ target' = [c \in Conns |-> Destroy(target[c])]
    /\ UNCHANGED <<appVars, socks5Auth, conn, clientOut, targetIn, hist>>

\* A shutdown whose stop() clears the registry without destroying the sockets.
Shutdown_ClearsOnly ==
    /\ process = "running"
    /\ process' = "exited"
    /\ connections' = {}
    /\ target' = [c \in Conns |-> Destroy(target[c])]
    /\ UNCHANGED <<appVars, socks5Auth, stats, client, conn, clientOut, targetIn, hist>>

\* SIGINT or SIGTERM: proxy.stop() destroys every socket of the registry and
\* clears the registry, then process.exit(0) ends the process, which closes
\* what stop() did not (the target sockets).  The counters are left as they
\* are.
Shutdown ==
    /\ process = "running"
    /\ process' = "exited"
    /\ connections' = {}
    /\ client' = [c \in Conns |-> IF c \in connections THEN Destroy(client[c]) ELSE client[c]]
    /\ target' = [c \in Conns |-> Destroy(target[c])]
    /\ UNCHANGED <<appVars, socks5Auth, stats, conn, clientOut, targetIn, hist>>

\* ------------------------------------------------------------------------
\* The Express application's /smart-proxy endpoint (src/server.js 166-204)
\* ------------------------------------------------------------------------

\* CF_WORKERS: the three worker URLs, by their host names' first labels.
CF_WORKERS == <<"telegram-proxy-9371", "telegram-proxy-1-c195", "telegram-proxy-2-3282">>

\* const maxAttempts = CF_WORKERS.length
maxAttempts == Len(CF_WORKERS)

\* The rotation without the modulo.
NextWorkerIndex_NoWrap(i) == i + 1

\* (currentWorkerIndex + 1) % CF_WORKERS.length
NextWorkerIndex(i) == (i + 1) % Len(CF_WORKERS)

\* response.status || 200
StatusOr200(status) == IF status = 0 THEN 200 ELSE status

\* The handler up to its first await: without a target URL it answers 400 and
\* returns; with one it enters the loop, reads currentWorkerIndex and calls
\* proxyThroughWorker with that worker.
SmartProxyRequest(r, hasTargetUrl) ==
    /\ requests[r].pc = "idle"
    /\ requests' = [requests EXCEPT ![r] =
                       IF hasTargetUrl
                       THEN [@ EXCEPT !.pc = "awaiting", !.tried = Append(@, currentWorkerIndex)]
                       ELSE [@ EXCEPT !.pc = "done",
                                      !.responses = Append(@, [status |-> 400, via |-> "none"])]]
    /\ UNCHANGED <<currentWorkerIndex, serverVars>>

\* The awaited call resolves: the handler returns the worker's result.
WorkerResponds(r, status) ==
    /\ requests[r].pc = "awaiting"
    /\ requests' = [requests EXCEPT ![r].pc = "done",
                                    ![r].responses =
                                        Append(@, [status |-> StatusOr200(status),
                                                   via |-> CF_WORKERS[requests[r].tried[Len(requests[r].tried)] + 1]])]
    /\ UNCHANGED <<currentWorkerIndex, serverVars>>

\* The awaited call rejects (an error, or the 30 s timeout): the catch block
\* rotates the shared index and counts the attempt; after the last attempt it
\* answers 500 'All workers failed', otherwise the loop goes round, reads the
\* index it has just written and calls the next worker.
WorkerFails(r) ==
    /\ requests[r].pc = "awaiting"
    /\ currentWorkerIndex' = NextWorkerIndex(currentWorkerIndex)
    /\ requests' = [requests EXCEPT ![r] =
                       IF @.attempts + 1 = maxAttempts
                       THEN [@ EXCEPT !.attempts = @ + 1, !.pc = "done",
                                      !.responses = Append(@, [status |-> 500, via |-> "none"])]
                       ELSE [@ EXCEPT !.attempts = @ + 1,
                                      !.tried = Append(@, NextWorkerIndex(currentWorkerIndex))]]
    /\ UNCHANGED serverVars

\* ------------------------------------------------------------------------
\* The allow-list CONNECT server (src/unnamed/part_000): an http.Server whose
\* 'connect' listener tunnels to permitted destinations only
\* ------------------------------------------------------------------------

\* telegramHosts: the nine addresses of the listener, as text
\* ('149.154.175.50', '149.154.167.51', '149.154.175.100', '149.154.167.91',
\* '149.154.171.5', '91.108.56.0', '91.108.4.0', '149.154.160.0',
\* '149.154.164.0').
telegramHosts ==
    <<<<49, 52, 57, 46, 49, 53, 52, 46, 49, 55, 53, 46, 53, 48>>,
      <<49, 52, 57, 46, 49, 53, 52, 46, 49, 54, 55, 46, 53, 49>>,
      <<49, 52, 57, 46, 49, 53, 52, 46, 49, 55, 53, 46, 49, 48, 48>>,
      <<49, 52, 57, 46, 49, 53, 52, 46, 49, 54, 55, 46, 57, 49>>,
      <<49, 52, 57, 46, 49, 53, 52, 46, 49, 55, 49, 46, 53>>,
      <<57, 49, 46, 49, 48, 56, 46, 53, 54, 46, 48>>,
      <<57, 49, 46, 49, 48, 56, 46, 52, 46, 48>>,
      <<49, 52, 57, 46, 49, 53, 52, 46, 49, 54, 48, 46, 48>>,
      <<49, 52, 57, 46, 49, 53, 52, 46, 49, 54, 52, 46, 48>>>>

\* parts.join(sep)
RECURSIVE Join(_, _)
Join(parts, sep) ==
    IF Len(parts) = 0 THEN <<>>
    ELSE IF Len(parts) = 1 THEN parts[1]
    ELSE parts[1] \o sep \o Join(Tail(parts), sep)

\* HostPrefix keeping two labels of the address in place of three.
HostPrefix_TwoLabels(tgHost) ==
    LET labels == Split(tgHost, <<46>>)
    IN  Join(SubSeq(labels, 1, Min(2, Len(labels))), <<46>>)

\* tgHost.split('.').slice(0, 3).join('.')
HostPrefix(tgHost) ==
    LET labels == Split(tgHost, <<46>>)
    IN  Join(SubSeq(labels, 1, Min(3, Len(labels))), <<46>>)

\* str.includes(sub)
StrIncludes(str, sub) == IndexOf(str, sub) >= 0

\* isTelegramHost: some entry's prefix occurs somewhere in the host.
isTelegramHost(host) ==
    \E i \in 1..Len(telegramHosts) : StrIncludes(host, HostPrefix(telegramHosts[i]))

\* StrTelegram is the text 'telegram'
StrTelegram ==
    <<116, 101, 108, 101, 103, 114, 97, 109>>
\* Str443 is the text '443'
Str443 ==
    <<52, 52, 51>>
\* Str403Forbidden is the text 'HTTP/1.1 403 Forbidden\r\n\r\n'
Str403Forbidden ==
    <<72, 84, 84, 80, 47, 49, 46, 49, 32, 52, 48, 51, 32, 70, 111, 114, 98, 105, 100, 100, 101, 110, 13, 10, 13, 10>>
\* Str200ProxyAgent is the text 'HTTP/1.1 200 Connection Established\r\nProxy-agent: MTProxy-Server\r\n\r\n'
Str200ProxyAgent ==
    <<72, 84, 84, 80, 47, 49, 46, 49, 32, 50, 48, 48, 32, 67, 111, 110, 110, 101, 99, 116, 105, 111, 110, 32, 69, 115, 116, 97, 98, 108, 105, 115, 104, 101, 100, 13, 10, 80, 114, 111, 120, 121, 45, 97, 103, 101, 110, 116, 58, 32, 77, 84, 80, 114, 111, 120, 121, 45, 83, 101, 114, 118, 101, 114, 13, 10, 13, 10>>
\* Str500ConnectionFailed is the text 'HTTP/1.1 500 Connection Failed\r\n\r\n'
Str500ConnectionFailed ==
    <<72, 84, 84, 80, 47, 49, 46, 49, 32, 53, 48, 48, 32, 67, 111, 110, 110, 101, 99, 116, 105, 111, 110, 32, 70, 97, 105, 108, 101, 100, 13, 10, 13, 10>>

\* const [host, port] = req.url.split(':'); port is undefined (hasPort FALSE)
\* when the text has no colon.
ConnectTarget(u) ==
    LET parts == Split(u, <<58>>)
    IN  [host |-> parts[1], hasPort |-> Len(parts) >= 2,
         port |-> IF Len(parts) >= 2 THEN parts[2] ELSE <<>>]

\* The test of the listener's if.
Permitted(t) ==
    isTelegramHost(t.host) \/ StrIncludes(t.host, StrTelegram) \/ (t.hasPort /\ t.port = Str443)

\* net.connect(port || 443, host, ...) for the port texts drawn here (decimal
\* digits, or letters).  An undefined or empty port gives 443; digits give
\* that TCP port, and net.connect throws when it is above 65535; a text that
\* is no number is taken by net.connect for the path of a local (IPC) socket.
ConnectArgs(t) ==
    LET digits == \A i \in 1..Len(t.port) : t.port[i] >= 48 /\ t.port[i] <= 57
    IN  IF ~t.hasPort \/ t.port = <<>> THEN [kind |-> "tcp", port |-> 443]
        ELSE IF ~digits THEN [kind |-> "ipc", port |-> Undef]
        ELSE IF DigitsValue(t.port) > 65535 THEN [kind |-> "throws", port |-> Undef]
        ELSE [kind |-> "tcp", port |-> DigitsValue(t.port)]

\* The http.Server accepts a connection (it keeps no registry).
HttpAccept(c) ==
    /\ process = "running"
    /\ client[c].st = "idle"
    /\ client' = [client EXCEPT ![c].st = "open"]
    /\ UNCHANGED <<appVars, process, socks5Auth, connections, stats, target, conn, clientOut, targetIn, hist>>

\* server.on('connect'): a permitted destination is connected to, with the
\* 'error' and 'end' listeners registered on both sockets; any other gets the
\* 403 line and the socket is ended.  A throw of net.connect is caught by
\* nothing: the process exits.
OnConnect(c, u, head) ==
    LET t == ConnectTarget(u)
        a == ConnectArgs(t)
    IN  /\ process = "running"
        /\ Readable(client[c]) /\ conn[c].proto = "none"
        /\ conn' = [conn EXCEPT ![c].proto = "allowlist",
                                ![c].route = IF Permitted(t) THEN "permitted" ELSE "blocked",
                                ![c].head = head]
        /\ hist' = [hist EXCEPT ![c].firstData = u]
        /\ IF ~Permitted(t)
           THEN /\ clientOut' = [clientOut EXCEPT ![c] = WriteAll(@, client[c], <<Str403Forbidden>>)]
                /\ client' = [client EXCEPT ![c] = End(@)]
                /\ UNCHANGED <<appVars, process, target>>
           ELSE IF a.kind = "throws"
           THEN /\ process' = "exited"
                /\ UNCHANGED <<client, target, clientOut>>
           ELSE /\ target' = [target EXCEPT ![c] =
                                 [@ EXCEPT !.st = "connecting", !.port = a.port,
                                           !.host = IF a.kind = "ipc" THEN t.port ELSE t.host]]
                /\ UNCHANGED <<appVars, process, client, clientOut>>
        /\ UNCHANGED <<appVars, socks5Auth, connections, stats, targetIn>>

\* The callback of net.connect: the 200 lines are written to the client,
\* head to the destination, and the two sockets are piped into each other.
ServerSocketConnect(c) ==
    /\ process = "running"
    /\ conn[c].proto = "allowlist" /\ target[c].st = "connecting"
    /\ target' = [target EXCEPT ![c].st = "open", ![c].wEnd = client[c].rEnd]
    /\ clientOut' = [clientOut EXCEPT ![c] = WriteAll(@, client[c], <<Str200ProxyAgent>>)]
    /\ targetIn' = [targetIn EXCEPT ![c] = IF conn[c].head = <<>> THEN @ ELSE Append(@, conn[c].head)]
    /\ conn' = [conn EXCEPT ![c].piped = TRUE]
    /\ hist' = [hist EXCEPT ![c].outcome = "connected", ![c].heard = Writable(client[c])]
    /\ UNCHANGED <<appVars, process, socks5Auth, connections, stats, client>>

\* serverSocket's 'error': clientSocket.end('HTTP/1.1 500 Connection Failed').
ServerSocketError(c) ==
    /\ process = "running"
    /\ conn[c].proto = "allowlist" /\ target[c].st \in {"connecting", "open"}
    /\ target' = [target EXCEPT ![c].st = "destroyed"]
    /\ clientOut' = [clientOut EXCEPT ![c] = WriteAll(@, client[c], <<Str500ConnectionFailed>>)]
    /\ client' = [client EXCEPT ![c] = End(@)]
    /\ hist' = [hist EXCEPT ![c].outcome = IF target[c].st = "connecting" THEN "failed" ELSE @,
                            ![c].heard = IF target[c].st = "connecting"
                                         THEN Writable(client[c]) ELSE @]
    /\ UNCHANGED <<appVars, process, socks5Auth, connections, stats, conn, targetIn>>

\* clientSocket's 'error': the listener of the permitted branch destroys
\* serverSocket.  The blocked branch registers no listener, and the http
\* server has removed its own before 'connect': the error is uncaught and
\* the process exits.
ClientSocketError(c) ==
    /\ process = "running"
    /\ conn[c].proto = "allowlist" /\ client[c].st = "open"
    /\ client' = [client EXCEPT ![c].st = "destroyed"]
    /\ target' = [target EXCEPT ![c] = Destroy(@)]
    /\ process' = IF conn[c].route = "blocked" THEN "exited" ELSE process
    /\ UNCHANGED <<appVars, socks5Auth, connections, stats, conn, clientOut, targetIn, hist>>

\* serverSocket's 'end' (allowHalfOpen false: the socket is destroyed): the
\* listener and the pipe end the client socket.
ServerSocketEnd(c) ==
    /\ process = "running"
    /\ conn[c].proto = "allowlist" /\ Readable(target[c])
    /\ target' = [target EXCEPT ![c] = PeerEnd(@)]
    /\ client' = [client EXCEPT ![c] = End(@)]
    /\ UNCHANGED <<appVars, process, socks5Auth, connections, stats, conn, clientOut, targetIn, hist>>

\* clientSocket's 'end'.  The sockets of an http.Server are half-open ones:
\* the socket stays writable until it is ended.  The listener of the
\* permitted branch ends serverSocket.
ClientSocketEnd(c) ==
    /\ process = "running"
    /\ conn[c].proto = "allowlist" /\ Readable(client[c])
    /\ client' = [client EXCEPT ![c].rEnd = TRUE,
                                ![c].st = IF client[c].wEnd THEN "destroyed" ELSE "open"]
    /\ target' = [target EXCEPT ![c] = End(@)]
    /\ UNCHANGED <<appVars, process, socks5Auth, connections, stats, conn, clientOut, targetIn, hist>>

\* Targets of CONNECT requests to the allow-list server.
\* UrlTelegramDC is the text '149.154.175.50:443'
UrlTelegramDC ==
    <<49, 52, 57, 46, 49, 53, 52, 46, 49, 55, 53, 46, 53, 48, 58, 52, 52, 51>>
\* UrlTelegramDC80 is the text '149.154.167.91:80'
UrlTelegramDC80 ==
    <<49, 52, 57, 46, 49, 53, 52, 46, 49, 54, 55, 46, 57, 49, 58, 56, 48>>
\* UrlTelegramNet is the text '91.108.56.100:8888'
UrlTelegramNet ==
    <<57, 49, 46, 49, 48, 56, 46, 53, 54, 46, 49, 48, 48, 58, 56, 56, 56, 56>>
\* UrlTelegramApi is the text 'api.telegram.org:80'
UrlTelegramApi ==
    <<97, 112, 105, 46, 116, 101, 108, 101, 103, 114, 97, 109, 46, 111, 114, 103, 58, 56, 48>>
\* UrlExample443 is the text 'example.com:443'
UrlExample443 ==
    <<101, 120, 97, 109, 112, 108, 101, 46, 99, 111, 109, 58, 52, 52, 51>>
\* UrlExample80 is the text 'example.com:80'
UrlExample80 ==
    <<101, 120, 97, 109, 112, 108, 101, 46, 99, 111, 109, 58, 56, 48>>
\* UrlExampleNoPort is the text 'example.com'
UrlExampleNoPort ==
    <<101, 120, 97, 109, 112, 108, 101, 46, 99, 111, 109>>
\* UrlExample0443 is the text 'example.com:0443'
UrlExample0443 ==
    <<101, 120, 97, 109, 112, 108, 101, 46, 99, 111, 109, 58, 48, 52, 52, 51>>
\* UrlOther22 is the text 'evil.example:22'
UrlOther22 ==
    <<101, 118, 105, 108, 46, 101, 120, 97, 109, 112, 108, 101, 58, 50, 50>>
\* UrlInnerPrefix is the text '10.149.154.175.1:25'
UrlInnerPrefix ==
    <<49, 48, 46, 49, 52, 57, 46, 49, 53, 52, 46, 49, 55, 53, 46, 49, 58, 50, 53>>
\* UrlTwoLabels is the text '149.154.99.9:80'
UrlTwoLabels ==
    <<49, 52, 57, 46, 49, 53, 52, 46, 57, 57, 46, 57, 58, 56, 48>>
\* UrlBlockedBigPort is the text '127.0.0.1:99999'
UrlBlockedBigPort ==
    <<49, 50, 55, 46, 48, 46, 48, 46, 49, 58, 57, 57, 57, 57, 57>>
\* UrlTelegramBigPort is the text 't.telegram.org:99999'
UrlTelegramBigPort ==
    <<116, 46, 116, 101, 108, 101, 103, 114, 97, 109, 46, 111, 114, 103, 58, 57, 57, 57, 57, 57>>
\* UrlTelegramWordPort is the text 'web.telegram.org:abc'
UrlTelegramWordPort ==
    <<119, 101, 98, 46, 116, 101, 108, 101, 103, 114, 97, 109, 46, 111, 114, 103, 58, 97, 98, 99>>
\* UrlNoHost is the text ':443'
UrlNoHost ==
    <<58, 52, 52, 51>>
\* UrlTelegramNoPort is the text 'telegram.org'
UrlTelegramNoPort ==
    <<116, 101, 108, 101, 103, 114, 97, 109, 46, 111, 114, 103>>
ConnectUrls ==
    {UrlTelegramDC,
     UrlTelegramDC80,
     UrlTelegramNet,
     UrlTelegramApi,
     UrlExample443,
     UrlExample80,
     UrlExampleNoPort,
     UrlExample0443,
     UrlOther22,
     UrlInnerPrefix,
     UrlTwoLabels,
     UrlBlockedBigPort,
     UrlTelegramBigPort,
     UrlTelegramWordPort,
     UrlNoHost,
     UrlTelegramNoPort}

\* head: the bytes the http parser had read beyond the request's header block.
ConnectHeads == {<<>>, <<22>>}

\* ------------------------------------------------------------------------
\* Inputs: the chunks the peers send
\* ------------------------------------------------------------------------

\* ReqGetRoot is the text 'GET / HTTP/1.1\r\n\r\n'
ReqGetRoot ==
    <<71, 69, 84, 32, 47, 32, 72, 84, 84, 80, 47, 49, 46, 49, 13, 10, 13, 10>>
\* ReqGetHealth is the text 'GET /health HTTP/1.1\r\n\r\n'
ReqGetHealth ==
    <<71, 69, 84, 32, 47, 104, 101, 97, 108, 116, 104, 32, 72, 84, 84, 80, 47, 49, 46, 49, 13, 10, 13, 10>>
\* ReqGetStats is the text 'GET /stats?x=1 HTTP/1.1\r\n\r\n'
ReqGetStats ==
    <<71, 69, 84, 32, 47, 115, 116, 97, 116, 115, 63, 120, 61, 49, 32, 72, 84, 84, 80, 47, 49, 46, 49, 13, 10, 13, 10>>
\* ReqGetMissing is the text 'GET /nope HTTP/1.1\r\n\r\n'
ReqGetMissing ==
    <<71, 69, 84, 32, 47, 110, 111, 112, 101, 32, 72, 84, 84, 80, 47, 49, 46, 49, 13, 10, 13, 10>>
\* ReqGetProxyNoUrl is the text 'GET /proxy HTTP/1.1\r\n\r\n'
ReqGetProxyNoUrl ==
    <<71, 69, 84, 32, 47, 112, 114, 111, 120, 121, 32, 72, 84, 84, 80, 47, 49, 46, 49, 13, 10, 13, 10>>
\* ReqPostProxyHeader is the text 'POST /proxy HTTP/1.1\r\nX-Target-URL: http://t/\r\n\r\nab'
ReqPostProxyHeader ==
    <<80, 79, 83, 84, 32, 47, 112, 114, 111, 120, 121, 32, 72, 84, 84, 80, 47, 49, 46, 49, 13, 10, 88, 45, 84, 97, 114, 103, 101, 116, 45, 85, 82, 76, 58, 32, 104, 116, 116, 112, 58, 47, 47, 116, 47, 13, 10, 13, 10, 97, 98>>
\* ReqGetProxyQuery is the text 'GET /proxy?url=http://t/ HTTP/1.1\r\n\r\n'
ReqGetProxyQuery ==
    <<71, 69, 84, 32, 47, 112, 114, 111, 120, 121, 63, 117, 114, 108, 61, 104, 116, 116, 112, 58, 47, 47, 116, 47, 32, 72, 84, 84, 80, 47, 49, 46, 49, 13, 10, 13, 10>>
\* ReqGetAbsolute is the text 'GET http://t/x HTTP/1.1\r\n\r\n'
ReqGetAbsolute ==
    <<71, 69, 84, 32, 104, 116, 116, 112, 58, 47, 47, 116, 47, 120, 32, 72, 84, 84, 80, 47, 49, 46, 49, 13, 10, 13, 10>>
\* ReqOptions is the text 'OPTIONS * HTTP/1.1\r\n\r\n'
ReqOptions ==
    <<79, 80, 84, 73, 79, 78, 83, 32, 42, 32, 72, 84, 84, 80, 47, 49, 46, 49, 13, 10, 13, 10>>
\* ReqConnect443 is the text 'CONNECT example.com:443 HTTP/1.1\r\n\r\n'
ReqConnect443 ==
    <<67, 79, 78, 78, 69, 67, 84, 32, 101, 120, 97, 109, 112, 108, 101, 46, 99, 111, 109, 58, 52, 52, 51, 32, 72, 84, 84, 80, 47, 49, 46, 49, 13, 10, 13, 10>>
\* ReqConnectNoPort is the text 'CONNECT example.com HTTP/1.1\r\n\r\n'
ReqConnectNoPort ==
    <<67, 79, 78, 78, 69, 67, 84, 32, 101, 120, 97, 109, 112, 108, 101, 46, 99, 111, 109, 32, 72, 84, 84, 80, 47, 49, 46, 49, 13, 10, 13, 10>>
\* ReqConnectBadPort is the text 'CONNECT example.com:99999 HTTP/1.1\r\n\r\n'
ReqConnectBadPort ==
    <<67, 79, 78, 78, 69, 67, 84, 32, 101, 120, 97, 109, 112, 108, 101, 46, 99, 111, 109, 58, 57, 57, 57, 57, 57, 32, 72, 84, 84, 80, 47, 49, 46, 49, 13, 10, 13, 10>>
\* ReqConnectBare is the text 'CONNECT'
ReqConnectBare ==
    <<67, 79, 78, 78, 69, 67, 84>>
\* ReqNoSpace is the text 'GET/ HTTP/1.1\r\n\r\n'
ReqNoSpace ==
    <<71, 69, 84, 47, 32, 72, 84, 84, 80, 47, 49, 46, 49, 13, 10, 13, 10>>

HTTPChunks ==
    {ReqGetRoot, ReqGetHealth, ReqGetStats, ReqGetMissing, ReqGetProxyNoUrl,
     ReqPostProxyHeader, ReqGetProxyQuery, ReqGetAbsolute, ReqOptions, ReqConnect443,
     ReqConnectNoPort, ReqConnectBadPort, ReqConnectBare, ReqNoSpace}

\* Method negotiations: one method, two methods, a method count larger than
\* the methods present, no method, a byte beyond the declared methods.
HandshakeChunks ==
    {<<5, 1, 0>>, <<5, 1, 2>>, <<5, 2, 0, 2>>, <<5, 3, 0>>, <<5, 3, 2>>, <<5, 0, 0>>,
     <<5, 1, 0, 2>>, <<5, 1, 2, 0>>}

\* ReqPatchAbsolute is the text 'PATCH http://t/x HTTP/1.1\r\n\r\n'
ReqPatchAbsolute ==
    <<80, 65, 84, 67, 72, 32, 104, 116, 116, 112, 58, 47, 47, 116, 47, 120, 32, 72, 84, 84, 80, 47, 49, 46, 49, 13, 10, 13, 10>>

\* Chunks that are neither: a lone 0xAA, a SOCKS5 start too short to be one,
\* a SOCKS4 start, a request with a method that is none of the seven.
OtherChunks == {<<170>>, <<5, 1>>, <<5>>, <<4, 1, 0>>, ReqPatchAbsolute}

\* The first chunks of a connection.
FirstChunks == HTTPChunks \cup HandshakeChunks \cup OtherChunks

\* Username/password messages: the configured credential, a wrong password, a
\* wrong username, a message cut before the password, a lone version byte, the
\* credential under another version byte.
AuthChunks ==
    {<<1, 8>> \o CredUser \o <<9>> \o CredPass,
     <<1, 8>> \o CredUser \o <<1, 120>>,
     <<1, 1, 120, 9>> \o CredPass,
     <<1, 8>> \o CredUser,
     <<1>>,
     <<5, 8>> \o CredUser \o <<9>> \o CredPass}

\* HostExample is the text 'example.com'
HostExample ==
    <<101, 120, 97, 109, 112, 108, 101, 46, 99, 111, 109>>

\* Requests: CONNECT to a domain and to an IPv4 address; BIND and UDP
\* ASSOCIATE; IPv6 under CONNECT and under BIND; a wrong version; an unknown
\* address type; and buffers shorter than the fields they declare.
RequestChunks ==
    {<<5, 1, 0, 3, 11>> \o HostExample \o <<0, 80>>,
     <<5, 1, 0, 1, 127, 0, 0, 1, 1, 187>>,
     <<5, 2, 0, 1, 127, 0, 0, 1, 0, 80>>,
     <<5, 3, 0, 3, 1, 97, 0, 80>>,
     <<5, 1, 0, 4, 0, 0, 0, 0, 0, 0, 0, 0, 0, 0, 0, 0, 0, 0, 0, 1, 0, 80>>,
     <<5, 2, 0, 4, 0, 0, 0, 0, 0, 0, 0, 0, 0, 0, 0, 0, 0, 0, 0, 1, 0, 80>>,
     <<5, 1, 0, 4>>,
     <<4, 1, 0, 1, 127, 0, 0, 1, 0, 80>>,
     <<4, 1, 0, 4, 0, 80>>,
     <<5, 1, 0, 2, 0, 80>>,
     <<5>>,
     <<5, 1, 0>>,
     <<5, 2, 0>>,
     <<5, 1, 0, 1, 127, 0>>,
     <<5, 1, 0, 1, 127, 0, 0, 1>>,
     <<5, 1, 0, 1, 127, 0, 0, 1, 0>>,
     <<5, 1, 0, 3>>,
     <<5, 1, 0, 3, 11, 101, 120>>,
     <<5, 1, 0, 3, 1, 97>>}

\* Tunnel payloads, one per direction.
TargetPayloads == {<<200>>, <<201>>}
ClientPayloads == {<<22>>}

\* Status codes of upstream responses: one getStatusText knows, one it does not.
UpstreamCodes == {200, 503}

\* ------------------------------------------------------------------------
\* The specification
\* ------------------------------------------------------------------------

Next ==
    \/ \E c \in Conns : Accept(c)
    \/ \E c \in Conns, d \in FirstChunks : FirstDataSOCKS5(c, d)
    \/ \E c \in Conns, d \in FirstChunks : FirstDataHTTPLocal(c, d)
    \/ \E c \in Conns, d \in FirstChunks : FirstDataHTTPProxy(c, d)
    \/ \E c \in Conns, d \in FirstChunks : FirstDataHTTPConnect(c, d)
    \/ \E c \in Conns, d \in AuthChunks : SOCKS5AuthData(c, d)
    \/ \E c \in Conns, d \in RequestChunks : SOCKS5RequestData(c, d)
    \/ \E c \in Conns : TargetConnect(c)
    \/ \E c \in Conns : TargetError(c)
    \/ \E c \in Conns, b \in TargetPayloads : TargetData(c, b)
    \/ \E c \in Conns : TargetEnd(c)
    \/ \E c \in Conns : TargetClose(c)
    \/ \E c \in Conns, b \in ClientPayloads : ClientTunnelData(c, b)
    \/ \E c \in Conns, b \in ClientPayloads : SOCKS5TunnelData(c, b)
    \/ \E c \in Conns, b \in ClientPayloads : HTTPConnectData(c, b)
    \/ \E c \in Conns : ClientEnd(c)
    \/ \E c \in Conns : ClientError(c)
    \/ \E c \in Conns : ClientClose(c)
    \/ \E c \in Conns, code \in UpstreamCodes : UpstreamResponse(c, code)
    \/ \E c \in Conns : UpstreamEnd(c)
    \/ \E c \in Conns : UpstreamError(c)
    \/ Shutdown

Spec == Init /\ [][Next]_vars

\* The bytes the detection inputs are made of: method and command bytes,
\* 0x05, a space, 'G', and a byte that is no text.
DetectAlphabet == {0, 2, 5, 32, 71, 170}

\* The longest of the detection inputs made of those bytes.
MaxDetectLen == 3

\* First chunks for detection: every non-empty buffer of up to MaxDetectLen
\* bytes of the alphabet, the first chunks above, and buffers that start with
\* 0x05 and go on with a method token.
DetectChunks ==
    FirstChunks
    \cup UNION {[1..n -> DetectAlphabet] : n \in 1..MaxDetectLen}
    \cup {<<5>> \o tok : tok \in {TokGET, TokCONNECT}}
    \cup {<<71, 69, 84>>, <<71, 69, 84, 32>>, TokOPTIONS \o <<5, 1, 0>>}

\* The accept listener and the once-'data' listener alone, on those chunks.
DetectNext ==
    \/ \E c \in Conns : Accept(c)
    \/ \E c \in Conns, d \in DetectChunks : FirstDataSOCKS5(c, d)
    \/ \E c \in Conns, d \in DetectChunks : FirstDataHTTPLocal(c, d)
    \/ \E c \in Conns, d \in DetectChunks : FirstDataHTTPProxy(c, d)
    \/ \E c \in Conns, d \in DetectChunks : FirstDataHTTPConnect(c, d)

DetectSpec == Init /\ [][DetectNext]_vars

\* detectAndRouteProtocol on its whole domain: the chunks above and the empty
\* buffer.  (A net.Socket emits no 'data' for a read of zero bytes, so the
\* empty buffer reaches the function only from a caller other than the
\* once-'data' listener.)
EmptyChunk == <<>>
AnyChunks == DetectChunks \cup {EmptyChunk}

AnyChunkNext ==
    \/ \E c \in Conns : Accept(c)
    \/ \E c \in Conns, d \in AnyChunks : FirstDataSOCKS5(c, d)
    \/ \E c \in Conns, d \in AnyChunks : FirstDataHTTPLocal(c, d)
    \/ \E c \in Conns, d \in AnyChunks : FirstDataHTTPProxy(c, d)
    \/ \E c \in Conns, d \in AnyChunks : FirstDataHTTPConnect(c, d)

AnyChunkSpec == Init /\ [][AnyChunkNext]_vars

\* CONNECT targets: a host name or no host at all, followed by nothing or by a
\* colon and a port text: ':', ':0', ':80', ':443', ':65535', ':65536', ':80a', ':a80', ':-1', ':+80', ':0x50', ':8:9', ':0080'.
ConnectHosts == {HostExample, <<>>}
PortSuffixes ==
    {<<>>,
     <<58>>,
     <<58, 48>>,
     <<58, 56, 48>>,
     <<58, 52, 52, 51>>,
     <<58, 54, 53, 53, 51, 53>>,
     <<58, 54, 53, 53, 51, 54>>,
     <<58, 56, 48, 97>>,
     <<58, 97, 56, 48>>,
     <<58, 45, 49>>,
     <<58, 43, 56, 48>>,
     <<58, 48, 120, 53, 48>>,
     <<58, 56, 58, 57>>,
     <<58, 48, 48, 56, 48>>}
ConnectTargets == {h \o p : h \in ConnectHosts, p \in PortSuffixes}

\* The first chunk 'CONNECT <target> HTTP/1.1\r\n\r\n'
ConnectRequest(tgt) == TokCONNECT \o tgt \o <<32, 72, 84, 84, 80, 47, 49, 46, 49, 13, 10, 13, 10>>

\* The HTTP CONNECT handler alone, on those targets: accept, the CONNECT
\* request, and the outcome of the connection to the target.
ConnectTargetNext ==
    \/ \E c \in Conns : Accept(c)
    \/ \E c \in Conns, tgt \in ConnectTargets : FirstDataHTTPConnect(c, ConnectRequest(tgt))
    \/ \E c \in Conns : TargetConnect(c)
    \/ \E c \in Conns : TargetError(c)

ConnectTargetSpec == Init /\ [][ConnectTargetNext]_vars

\* A CONNECT request whose chunk goes on after the header block with the
\* first bytes of what the client means for the target (22, 3, 1: the start
\* of a TLS record).
EarlyBytes == <<22, 3, 1>>
ReqConnectEarlyData == ReqConnect443 \o EarlyBytes

\* HTTP CONNECT tunnels of the unified server, with and without such bytes.
EarlyDataNext ==
    \/ \E c \in Conns : Accept(c)
    \/ \E c \in Conns, d \in {ReqConnect443, ReqConnectEarlyData} : FirstDataHTTPConnect(c, d)
    \/ \E c \in Conns : TargetConnect(c)
    \/ \E c \in Conns : TargetError(c)
    \/ \E c \in Conns, b \in TargetPayloads : TargetData(c, b)
    \/ \E c \in Conns : TargetEnd(c)
    \/ \E c \in Conns : TargetClose(c)
    \/ \E c \in Conns, b \in ClientPayloads : ClientTunnelData(c, b)
    \/ \E c \in Conns : ClientEnd(c)
    \/ \E c \in Conns : ClientClose(c)

EarlyDataSpec == Init /\ [][EarlyDataNext]_vars

\* Status codes a worker answers with.
WorkerStatuses == {200, 404}

\* The /smart-proxy requests, each handled once, interleaved at their awaits.
SmartProxyNext ==
    \/ \E r \in RequestIds, hasTargetUrl \in BOOLEAN : SmartProxyRequest(r, hasTargetUrl)
    \/ \E r \in RequestIds, status \in WorkerStatuses : WorkerResponds(r, status)
    \/ \E r \in RequestIds : WorkerFails(r)

SmartProxySpec == Init /\ [][SmartProxyNext]_vars

\* makeRequest arms a 30 s timeout on the call to the worker, so an awaited
\* call that is not answered is rejected in the end.
SmartProxyFairness == \A r \in RequestIds : WF_vars(WorkerFails(r))

SmartProxyFairSpec == Init /\ [][SmartProxyNext]_vars /\ SmartProxyFairness

\* The bytes the address and port fields of the parsed requests are made of.
AddressBytes == {0, 10, 255}
PortBytes == {0, 1, 80}
NameBytes == {97, 46, 200}

\* The longest domain name of the parsed requests.
MaxNameLen == 2

\* Complete CONNECT requests: every IPv4 address and port of those bytes,
\* every domain name of up to MaxNameLen of the name bytes, and the request
\* for example.com:80.
ParseChunks ==
    {<<5, 1, 0, 1, a1, a2, a3, a4, p1, p2>> :
        a1 \in AddressBytes, a2 \in AddressBytes, a3 \in AddressBytes, a4 \in AddressBytes,
        p1 \in PortBytes, p2 \in PortBytes}
    \cup {<<5, 1, 0, 3, Len(name)>> \o name \o <<p1, p2>> :
            name \in UNION {[1..n -> NameBytes] : n \in 0..MaxNameLen},
            p1 \in PortBytes, p2 \in PortBytes}
    \cup {<<5, 1, 0, 3, 11>> \o HostExample \o <<0, 80>>}

\* A SOCKS5 connection up to its request, on those requests.
RequestNext ==
    \/ \E c \in Conns : Accept(c)
    \/ \E c \in Conns, d \in HandshakeChunks : FirstDataSOCKS5(c, d)
    \/ \E c \in Conns, d \in AuthChunks : SOCKS5AuthData(c, d)
    \/ \E c \in Conns, d \in ParseChunks : SOCKS5RequestData(c, d)

RequestSpec == Init /\ [][RequestNext]_vars

\* Two connections, so that one can fail while the other is yet to come.
ServeIds == {1, 2}

\* Chunks that make each handler fail, with one that succeeds beside each:
\* a byte that is no protocol, a health request, a request to forward, a
\* CONNECT, a CONNECT whose port net.createConnection refuses, a greeting
\* offering no authentication and one offering username/password only.
ServeFirstChunks ==
    {<<170>>, ReqGetHealth, ReqGetAbsolute, ReqConnect443, ReqConnectBadPort,
     <<5, 1, 0>>, <<5, 1, 2>>}
ServeAuthChunks == {<<1, 8>> \o CredUser \o <<9>> \o CredPass, <<1>>}
ServeRequestChunks == {<<5, 2, 0>>, <<5, 1, 0, 1, 127, 0, 0, 1, 1, 187>>}

\* The unified server with those chunks; tunnels carry no payload.
ServeNext ==
    \/ \E c \in Conns : Accept(c)
    \/ \E c \in Conns, d \in ServeFirstChunks : FirstDataSOCKS5(c, d)
    \/ \E c \in Conns, d \in ServeFirstChunks : FirstDataHTTPLocal(c, d)
    \/ \E c \in Conns, d \in ServeFirstChunks : FirstDataHTTPProxy(c, d)
    \/ \E c \in Conns, d \in ServeFirstChunks : FirstDataHTTPConnect(c, d)
    \/ \E c \in Conns, d \in ServeAuthChunks : SOCKS5AuthData(c, d)
    \/ \E c \in Conns, d \in ServeRequestChunks : SOCKS5RequestData(c, d)
    \/ \E c \in Conns : TargetConnect(c)
    \/ \E c \in Conns : TargetError(c)
    \/ \E c \in Conns : TargetEnd(c)
    \/ \E c \in Conns : TargetClose(c)
    \/ \E c \in Conns : ClientEnd(c)
    \/ \E c \in Conns : ClientError(c)
    \/ \E c \in Conns : ClientClose(c)
    \/ \E c \in Conns, code \in UpstreamCodes : UpstreamResponse(c, code)
    \/ \E c \in Conns : UpstreamEnd(c)
    \/ \E c \in Conns : UpstreamError(c)

ServeSpec == InitWith(ServeIds) /\ [][ServeNext]_vars

\* CONNECT requests on two connections: a target with a port, one whose port
\* net.createConnection refuses, and a request line with no target at all.
ConnectCountChunks == {ReqConnect443, ReqConnectBadPort, ReqConnectBare}

\* The HTTP CONNECT handler on two connections, from accept to close.
ConnectCountNext ==
    \/ \E c \in Conns : Accept(c)
    \/ \E c \in Conns, d \in ConnectCountChunks : FirstDataHTTPConnect(c, d)
    \/ \E c \in Conns : TargetConnect(c)
    \/ \E c \in Conns : TargetError(c)
    \/ \E c \in Conns : TargetEnd(c)
    \/ \E c \in Conns : ClientEnd(c)
    \/ \E c \in Conns : ClientClose(c)

ConnectCountSpec == InitWith(ServeIds) /\ [][ConnectCountNext]_vars

\* The allow-list server: its connections, CONNECT requests and tunnels.
AllowListNext ==
    \/ \E c \in Conns : HttpAccept(c)
    \/ \E c \in Conns, u \in ConnectUrls, head \in ConnectHeads : OnConnect(c, u, head)
    \/ \E c \in Conns : ServerSocketConnect(c)
    \/ \E c \in Conns : ServerSocketError(c)
    \/ \E c \in Conns : ClientSocketError(c)
    \/ \E c \in Conns : ServerSocketEnd(c)
    \/ \E c \in Conns : ClientSocketEnd(c)
    \/ \E c \in Conns, b \in TargetPayloads : TargetData(c, b)
    \/ \E c \in Conns, b \in ClientPayloads : ClientTunnelData(c, b)

AllowListSpec == Init /\ [][AllowListNext]_vars

\* The event loop emits the 'close' of a destroyed socket.
Fairness ==
    \A c \in ConnIds : WF_vars(ClientClose(c)) /\ WF_vars(TargetClose(c))

FairSpec == Init /\ [][Next]_vars /\ Fairness


\* ------------------------------------------------------------------------
\* Properties
\* ------------------------------------------------------------------------

\* The socket has closed: destroy() has run on it (its 'close' is emitted or
\* about to be).
Gone(sock) == sock.st \in {"destroyed", "closed"}

\* createSOCKS5Tunnel has run for the connection.
SOCKS5TunnelCreated(c) == conn[c].proto = "socks5" /\ target[c].st # "none"

\* handleHTTPConnect has attached its pipes for the connection.
ConnectTunnelEstablished(c) == conn[c].route = "connect" /\ conn[c].piped

\* C1: in a SOCKS5 tunnel, from the moment createSOCKS5Tunnel has run, once
\* either socket of the pair has closed (by destroy, error or end-of-stream)
\* the other one is eventually closed too.
C1_SOCKS5PairedLifetime ==
    \A c \in ConnIds :
        /\ (SOCKS5TunnelCreated(c) /\ Gone(client[c])) ~> Gone(target[c])
        /\ (SOCKS5TunnelCreated(c) /\ Gone(target[c])) ~> Gone(client[c])

\* C1 witness: an established SOCKS5 tunnel whose client socket has closed and
\* whose target socket, which had neither ended nor been closed by its peer's
\* FIN, has been destroyed.
C1_Witness ==
    \E c \in ConnIds :
        /\ conn[c].proto = "socks5" /\ conn[c].piped
        /\ client[c].st = "closed" /\ client[c].rEnd
        /\ target[c].st = "destroyed" /\ ~target[c].rEnd

\* The socket has closed or the proxy has ended it (end() sends the FIN and the
\* socket closes when the peer answers).
ClosedOrEnded(sock) == Gone(sock) \/ sock.wEnd

\* C2 (as claimed): in an established HTTP CONNECT tunnel, by the time the
\* 'close' of one socket has been emitted and its listeners have run, the
\* other socket has been closed or ended.  (After that 'close' no handler is
\* left to run for the pair, so a socket the proxy has neither destroyed nor
\* ended by then is never closed by the proxy.)
C2_ConnectPairedLifetime ==
    \A c \in ConnIds :
        ConnectTunnelEstablished(c) =>
            /\ client[c].st = "closed" => ClosedOrEnded(target[c])
            /\ target[c].st = "closed" => ClosedOrEnded(client[c])

\* C3: for an HTTP CONNECT request, when the target connects (and the client
\* socket still takes writes) the first write to the client is exactly
\* 'HTTP/1.1 200 Connection Established\r\n\r\n' and the pipes are attached;
\* when the connection fails before it is established, the client gets
\* exactly 'HTTP/1.1 502 Bad Gateway\r\n\r\n', its socket is destroyed and no
\* relay is ever started.
C3_ConnectReplies ==
    \A c \in ConnIds :
        conn[c].route = "connect" =>
            /\ (hist[c].outcome = "connected" /\ hist[c].heard) =>
                   /\ Len(clientOut[c]) >= 1
                   /\ clientOut[c][1] = Str200Established
                   /\ conn[c].piped
            /\ (hist[c].outcome = "failed" /\ hist[c].heard) =>
                   /\ clientOut[c] = <<Str502BadGateway>>
                   /\ Gone(client[c])
            /\ hist[c].outcome # "connected" =>
                   /\ ~conn[c].piped
                   /\ targetIn[c] = <<>>
                   /\ hist[c].targetSent = <<>>
                   /\ clientOut[c] \in {<<>>, <<Str502BadGateway>>}

\* C3 witness: a CONNECT answered with the 200 line, then a chunk of the
\* target relayed to the client.
C3_Witness ==
    \E c \in ConnIds :
        /\ conn[c].route = "connect" /\ hist[c].outcome = "connected"
        /\ Len(clientOut[c]) = 2 /\ clientOut[c][1] = Str200Established
        /\ clientOut[c][2] \in TargetPayloads

\* The replies of method negotiation and authentication that let a
\* connection go on.
NegotiationReplies == {<<SOCKS_VERSION, NO_AUTH>>, <<SOCKS_VERSION, USERNAME_PASSWORD>>, <<1, 0>>}

\* C4: after a SOCKS5 request that starts a connection to the target, with
\* k the number of writes made before the attempt (all of them negotiation
\* replies): when the target connects (and the client socket still takes
\* writes), write k+1 is the 10-byte success reply, ahead of every relayed
\* chunk, and the connection is tunneling; when the connection fails, write
\* k+1 is the last one, 10 bytes with code 0x05, and the client socket is
\* destroyed; and unless the target has connected nothing is relayed.
C4_SOCKS5ConnectReplies ==
    \A c \in ConnIds :
        SOCKS5TunnelCreated(c) =>
            LET k == hist[c].attemptAt
            IN  /\ Len(clientOut[c]) >= k
                /\ \A i \in 1..k : clientOut[c][i] \in NegotiationReplies
                /\ (hist[c].outcome = "connected" /\ hist[c].heard) =>
                       /\ Len(clientOut[c]) > k
                       /\ clientOut[c][k + 1] = <<5, 0, 0, 1, 0, 0, 0, 0, 0, 0>>
                       /\ conn[c].piped /\ conn[c].step = "tunnel"
                /\ (hist[c].outcome = "failed" /\ hist[c].heard) =>
                       /\ Len(clientOut[c]) = k + 1
                       /\ Len(clientOut[c][k + 1]) = 10
                       /\ clientOut[c][k + 1][2] = 5
                       /\ Gone(client[c])
                /\ hist[c].outcome # "connected" =>
                       /\ ~conn[c].piped
                       /\ targetIn[c] = <<>>
                       /\ hist[c].targetSent = <<>>

\* C4 witness: a SOCKS5 connection whose target refused: the client got the
\* 10-byte reply with code 0x05 and was destroyed.
C4_Witness ==
    \E c \in ConnIds :
        /\ SOCKS5TunnelCreated(c) /\ hist[c].outcome = "failed" /\ hist[c].heard
        /\ clientOut[c][Len(clientOut[c])] = <<5, 5, 0, 1, 0, 0, 0, 0, 0, 0>>
        /\ client[c].st = "destroyed"

\* The methods a negotiation message offers: the method bytes present among
\* the first data[1] bytes after the count.
OfferedMethods(d) == {d[i] : i \in 3..Min(Len(d), 2 + d[2])}

\* The method the negotiation rule selects.
SelectedMethod(d) ==
    IF socks5Auth.set
    THEN IF 2 \in OfferedMethods(d) THEN 2 ELSE 255
    ELSE IF 0 \in OfferedMethods(d) THEN 0 ELSE 255

\* C5: method negotiation replies with exactly the two bytes <<5, m>>, m
\* being 0x02 (credential configured) or 0x00 (none configured) when that
\* method is offered and 0xFF otherwise; on 0xFF the connection is destroyed
\* and reaches neither the authentication nor the request phase.
C5_MethodNegotiation ==
    \A c \in ConnIds :
        hist[c].handler = "socks5" =>
            /\ Len(clientOut[c]) >= 1
            /\ clientOut[c][1] = <<5, SelectedMethod(hist[c].firstData)>>
            /\ SelectedMethod(hist[c].firstData) = 255 =>
                   /\ clientOut[c] = <<<<5, 255>>>>
                   /\ Gone(client[c])
                   /\ ~conn[c].listening
                   /\ ~hist[c].authSeen /\ ~hist[c].reqSeen
                   /\ target[c].st = "none"
            /\ SelectedMethod(hist[c].firstData) # 255 => conn[c].listening

\* C5 witness: <<5, 1, 2>> with no credential configured was answered
\* <<5, 0xFF>> and the socket destroyed.
C5_Witness ==
    \E c \in ConnIds :
        /\ ~socks5Auth.set /\ hist[c].firstData = <<5, 1, 2>>
        /\ clientOut[c] = <<<<5, 255>>>> /\ client[c].st = "destroyed"

\* The username and password of an authentication message
\* [version, ulen, username, plen, password], as far as the buffer goes.
SuppliedUsername(d) ==
    IF Len(d) < 2 THEN <<>> ELSE SubSeq(d, 3, Min(Len(d), 2 + d[2]))
SuppliedPassword(d) ==
    IF Len(d) < 2 \/ Len(d) < 3 + d[2] THEN <<>>
    ELSE SubSeq(d, 4 + d[2], Min(Len(d), 3 + d[2] + d[3 + d[2]]))

\* C6: with a credential configured, the authentication phase of a SOCKS5
\* connection replies <<1, 0>> exactly when the supplied username and
\* password are the configured ones, and otherwise replies <<1, 1>> and
\* destroys the connection; no request is read and no connection to a target
\* is started on a SOCKS5 connection that has not passed authentication.
C6_Authentication ==
    \A c \in ConnIds :
        (socks5Auth.set /\ hist[c].handler = "socks5") =>
            /\ hist[c].authSeen =>
                   /\ Len(clientOut[c]) >= 2
                   /\ clientOut[c][2] = <<1, 0>> <=>
                          /\ SuppliedUsername(hist[c].authData) = CredUser
                          /\ SuppliedPassword(hist[c].authData) = CredPass
                   /\ clientOut[c][2] # <<1, 0>> =>
                          /\ clientOut[c] = <<<<5, 2>>, <<1, 1>>>>
                          /\ Gone(client[c])
            /\ (hist[c].reqSeen \/ target[c].st # "none") =>
                   /\ hist[c].authSeen
                   /\ clientOut[c][2] = <<1, 0>>

\* C6 witness: the right username with a wrong password was answered <<1, 1>>
\* and the socket destroyed.
C6_Witness ==
    \E c \in ConnIds :
        /\ socks5Auth.set /\ hist[c].authSeen
        /\ SuppliedUsername(hist[c].authData) = CredUser
        /\ SuppliedPassword(hist[c].authData) # CredPass
        /\ clientOut[c][2] = <<1, 1>> /\ client[c].st = "destroyed"

\* What the request handler left behind: its writes, and that it started no
\* connection and destroyed the socket.
RequestWrites(c) == SubSeq(clientOut[c], hist[c].attemptAt + 1, Len(clientOut[c]))
RequestRejected(c) == target[c].st = "none" /\ Gone(client[c]) /\ conn[c].step = "request"

\* C7 (as claimed): every request whose command byte is not 0x01 is answered
\* with the 10-byte reply carrying 0x07, and nothing else happens: no
\* connection to a target, the socket destroyed.
C7_AnyCommand ==
    \A c \in ConnIds :
        (hist[c].reqSeen /\ Len(hist[c].reqData) >= 2 /\ hist[c].reqData[2] # 1) =>
            /\ RequestWrites(c) = <<<<5, 7, 0, 1, 0, 0, 0, 0, 0, 0>>>>
            /\ RequestRejected(c)

\* C7 (amended): every request of at least 4 bytes whose command byte is not
\* 0x01 is answered with the 10-byte reply carrying 0x07, and nothing else
\* happens; a shorter one is destroyed without a reply.
C7_CommandNotSupported ==
    \A c \in ConnIds :
        (hist[c].reqSeen /\ Len(hist[c].reqData) >= 2 /\ hist[c].reqData[2] # 1) =>
            /\ RequestWrites(c) =
                   IF Len(hist[c].reqData) >= 4
                   THEN <<<<5, 7, 0, 1, 0, 0, 0, 0, 0, 0>>>> ELSE <<>>
            /\ RequestRejected(c)

\* C7 witness: a BIND request answered with 0x07 and destroyed.
C7_Witness ==
    \E c \in ConnIds :
        /\ hist[c].reqSeen /\ hist[c].reqData = <<5, 2, 0, 1, 127, 0, 0, 1, 0, 80>>
        /\ RequestWrites(c) = <<<<5, 7, 0, 1, 0, 0, 0, 0, 0, 0>>>>
        /\ client[c].st = "destroyed"

OrderedRule(d) ==
    IF d[1] = 5 /\ Len(d) >= 3 THEN "socks5"
    ELSE IF \E tok \in {TokGET, TokPOST, TokPUT, TokDELETE, TokHEAD, TokOPTIONS, TokCONNECT} :
                Len(d) >= Len(tok) /\ \A i \in 1..Len(tok) : d[i] = tok[i]
         THEN "http"
         ELSE "http"

\* C9: every non-empty first chunk goes to the SOCKS5 handler exactly when
\* its first byte is 0x05 and it has at least 3 bytes, and to the HTTP handler
\* otherwise; that is the handler the ordered rule gives; and the handler is
\* given the chunk as it was received.
C9_Detection ==
    \A c \in ConnIds :
        hist[c].handler # "none" =>
            /\ hist[c].firstData # <<>>
            /\ hist[c].handler = "socks5" <=>
                   (hist[c].firstData[1] = 5 /\ Len(hist[c].firstData) >= 3)
            /\ hist[c].handler = OrderedRule(hist[c].firstData)
            /\ hist[c].handlerData = hist[c].firstData
            /\ conn[c].proto = hist[c].handler

\* C9 witness: a two-byte chunk that starts with 0x05 went to the HTTP
\* handler, whole.
C9_Witness ==
    \E c \in ConnIds :
        /\ hist[c].firstData = <<5, 2>>
        /\ hist[c].handler = "http" /\ hist[c].handlerData = <<5, 2>>

\* A buffer shorter than the fields it declares, phase by phase.
HandshakeShort(d) == Len(d) < 2 \/ Len(d) < 2 + d[2]
AuthShort(d) ==
    \/ Len(d) < 2
    \/ Len(d) < 3 + d[2]
    \/ Len(d) < 3 + d[2] + d[3 + d[2]]
RequestShort(d) ==
    \/ Len(d) < 4
    \/ d[4] = 1 /\ Len(d) < 10
    \/ d[4] = 3 /\ (Len(d) < 5 \/ Len(d) < 7 + d[5])

\* C10 (as claimed): in every SOCKS5 phase a buffer shorter than the fields
\* it declares is a protocol error: the connection is destroyed and no
\* connection to a target is started.
C10_ShortBuffersRejected ==
    \A c \in ConnIds :
        hist[c].handler = "socks5" =>
            /\ HandshakeShort(hist[c].firstData) =>
                   Gone(client[c]) /\ ~conn[c].listening /\ target[c].st = "none"
            /\ (socks5Auth.set /\ hist[c].authSeen /\ AuthShort(hist[c].authData)) =>
                   Gone(client[c]) /\ ~hist[c].reqSeen /\ target[c].st = "none"
            /\ (hist[c].reqSeen /\ RequestShort(hist[c].reqData)) =>
                   Gone(client[c]) /\ target[c].st = "none"

\* The known host prefixes: the first three labels of the listed addresses
\* ('149.154.175', '149.154.167', '149.154.171', '91.108.56', '91.108.4',
\* '149.154.160', '149.154.164').
KnownHostPrefixes ==
    {<<49, 52, 57, 46, 49, 53, 52, 46, 49, 55, 53>>,
     <<49, 52, 57, 46, 49, 53, 52, 46, 49, 54, 55>>,
     <<49, 52, 57, 46, 49, 53, 52, 46, 49, 55, 49>>,
     <<57, 49, 46, 49, 48, 56, 46, 53, 54>>,
     <<57, 49, 46, 49, 48, 56, 46, 52>>,
     <<49, 52, 57, 46, 49, 53, 52, 46, 49, 54, 48>>,
     <<49, 52, 57, 46, 49, 53, 52, 46, 49, 54, 52>>}

\* The text occurs somewhere in the host.
Occurs(sub, host) ==
    \E i \in 1..(Len(host) - Len(sub) + 1) : SubSeq(host, i, i + Len(sub) - 1) = sub

\* The CONNECT target is outside the allow-list: its host (the text before
\* the first colon) holds no known prefix and not 'telegram', and its port
\* (the text after that colon) is not '443'.
OutsideAllowList(u) ==
    LET colons == {i \in 1..Len(u) : u[i] = 58}
        first == IF colons = {} THEN Len(u) + 1 ELSE CHOOSE i \in colons : \A j \in colons : i <= j
        later == {i \in colons : i > first}
        last == IF later = {} THEN Len(u) + 1 ELSE CHOOSE i \in later : \A j \in later : i <= j
        host == SubSeq(u, 1, first - 1)
        port == SubSeq(u, first + 1, last - 1)
    IN  /\ \A p \in KnownHostPrefixes : ~Occurs(p, host)
        /\ ~Occurs(StrTelegram, host)
        /\ port # Str443

\* C11: in the allow-list server, a CONNECT whose destination is outside the
\* allow-list is answered with exactly 'HTTP/1.1 403 Forbidden' and no
\* connection to the destination is ever started for it.
C11_BlockedDestinations ==
    \A c \in ConnIds :
        (conn[c].proto = "allowlist" /\ OutsideAllowList(hist[c].firstData)) =>
            /\ clientOut[c] = <<Str403Forbidden>>
            /\ target[c].st = "none"
            /\ conn[c].route = "blocked"

\* C11 witness: 'evil.example:22' was refused and the client socket ended,
\* with no destination socket.
C11_Witness ==
    \E c \in ConnIds :
        /\ conn[c].proto = "allowlist" /\ hist[c].firstData = UrlOther22
        /\ clientOut[c] = <<Str403Forbidden>> /\ client[c].wEnd
        /\ target[c].st = "none"

\* The two pipes of a tunnel of the unified server are attached.
TunnelEstablished(c) == conn[c].proto \in {"socks5", "http"} /\ conn[c].piped

\* C12 (as claimed): an accepted client socket is in the registry while it is
\* open and out of it once it has closed; and after either socket of an
\* established tunnel (SOCKS5 or HTTP CONNECT) has closed, the client socket
\* is eventually out of the registry.
C12_RegistryReturns ==
    \A c \in ConnIds :
        /\ [](client[c].st = "open" => c \in connections)
        /\ [](client[c].st = "closed" => c \notin connections)
        /\ (TunnelEstablished(c) /\ (Gone(client[c]) \/ Gone(target[c]))) ~> (c \notin connections)

\* C13 (as claimed): once a tunnel is established and the client has been
\* sent the success reply, everything the client socket takes after that
\* reply is what the target sent, in the target's order: nothing of the
\* proxy's own follows the reply.
C13_PureBytePipe ==
    \A c \in ConnIds :
        (TunnelEstablished(c) /\ hist[c].outcome = "connected" /\ hist[c].heard) =>
            LET relayed == SubSeq(clientOut[c], hist[c].attemptAt + 2, Len(clientOut[c]))
            IN  \E k \in 0..Len(hist[c].targetSent) : relayed = SubSeq(hist[c].targetSent, 1, k)

\* A byte in decimal.
Decimal(n) ==
    IF n < 10 THEN <<48 + n>>
    ELSE IF n < 100 THEN <<48 + (n \div 10), 48 + (n % 10)>>
    ELSE <<48 + (n \div 100), 48 + ((n \div 10) % 10), 48 + (n % 10)>>

\* A valid CONNECT request: version 5, command 1, a reserved byte, then an
\* IPv4 address and a port (10 bytes), or a length byte L, a name of L bytes
\* of ASCII and a port (7 + L bytes).
ValidRequest(d) ==
    /\ Len(d) >= 5 /\ d[1] = 5 /\ d[2] = 1
    /\ \/ d[4] = 1 /\ Len(d) = 10
       \/ d[4] = 3 /\ Len(d) = 7 + d[5] /\ \A i \in 6..(5 + d[5]) : d[i] < 128

\* C14: for every valid SOCKS5 CONNECT request the connection is started to
\* the host the request names (the four address bytes in dotted decimal, or
\* the L bytes after the length byte) and to the port 256*b1 + b2 of the two
\* bytes after the address.
C14_ParsedTarget ==
    \A c \in ConnIds :
        (hist[c].reqSeen /\ ValidRequest(hist[c].reqData)) =>
            LET d == hist[c].reqData
            IN  /\ target[c].st = "connecting"
                /\ d[4] = 1 =>
                       /\ target[c].host = Decimal(d[5]) \o <<46>> \o Decimal(d[6]) \o <<46>>
                                            \o Decimal(d[7]) \o <<46>> \o Decimal(d[8])
                       /\ target[c].port = 256 * d[9] + d[10]
                /\ d[4] = 3 =>
                       /\ target[c].host = SubSeq(d, 6, 5 + d[5])
                       /\ target[c].port = 256 * d[6 + d[5]] + d[7 + d[5]]

\* C14 witness: the request for example.com:80 started a connection to host
\* 'example.com', port 80.
C14_Witness ==
    \E c \in ConnIds :
        /\ hist[c].reqData = <<5, 1, 0, 3, 11>> \o HostExample \o <<0, 80>>
        /\ target[c].st = "connecting"
        /\ target[c].host = HostExample /\ target[c].port = 80

\* Something has failed on the connection: a handler threw, the target could
\* not be connected to, or a socket errored.
Failed(c) ==
    \/ conn[c].route = "error"
    \/ conn[c].proto = "socks5" /\ ~conn[c].listening
    \/ hist[c].authSeen /\ conn[c].step = "auth"
    \/ hist[c].reqSeen /\ conn[c].step = "request"
    \/ conn[c].route = "connect" /\ target[c].st = "none"
    \/ hist[c].outcome = "failed"
    \/ conn[c].upstream = "failed"
    \/ target[c].st \in {"destroyed", "closed"} /\ ~target[c].rEnd
    \/ client[c].st \in {"destroyed", "closed"} /\ ~client[c].rEnd /\ c \notin connections

\* C15: whatever has failed on the connections so far, the process runs and
\* a connection yet to come is accepted.
C15_ProcessSurvives ==
    /\ process = "running"
    /\ \A c \in Conns : client[c].st = "idle" => ENABLED Accept(c)

\* C15 witness: the first connection's request threw in the 'data' listener
\* and its socket has closed; the second connection has been accepted and
\* answered by the health endpoint.
C15_Witness ==
    /\ Conns = ServeIds
    /\ Failed(1) /\ hist[1].reqSeen /\ conn[1].step = "request" /\ client[1].st = "closed"
    /\ conn[2].route = "health" /\ clientOut[2] # <<>>
    /\ process = "running"

\* The chunk matches neither protocol: it is no SOCKS5 greeting (first byte
\* 0x05, three bytes or more) and starts with none of the seven method tokens.
MatchesNeither(d) ==
    /\ d # <<>>
    /\ ~(d[1] = 5 /\ Len(d) >= 3)
    /\ \A tok \in {TokGET, TokPOST, TokPUT, TokDELETE, TokHEAD, TokOPTIONS, TokCONNECT} :
           ~(Len(d) >= Len(tok) /\ SubSeq(d, 1, Len(tok)) = tok)

\* Str500Line is the text 'HTTP/1.1 500 Internal Server Error\r\n'
Str500Line ==
    <<72, 84, 84, 80, 47, 49, 46, 49, 32, 53, 48, 48, 32, 73, 110, 116, 101, 114, 110, 97, 108, 32, 83, 101, 114, 118, 101, 114, 32, 69, 114, 114, 111, 114, 13, 10>>

ProtocolError(c) ==
    \/ conn[c].proto = "socks5" /\ ~conn[c].listening
    \/ hist[c].authSeen /\ conn[c].step = "auth"
    \/ hist[c].reqSeen /\ conn[c].step = "request"
    \/ conn[c].route = "error"

\* C17 (as claimed): after a protocol error on the one connection of the run
\* its socket is destroyed and the errors counter, which started at 0, is 1.
C17_ProtocolErrorsCounted ==
    \A c \in ConnIds :
        ProtocolError(c) => (Gone(client[c]) /\ stats.errors = 1)


\* Str502Line is the text 'HTTP/1.1 502 Bad Gateway\r\n'
Str502Line ==
    <<72, 84, 84, 80, 47, 49, 46, 49, 32, 53, 48, 50, 32, 66, 97, 100, 32, 71, 97, 116, 101, 119, 97, 121, 13, 10>>

\* StrBadGateway is the text 'Bad Gateway'
StrBadGateway == <<66, 97, 100, 32, 71, 97, 116, 101, 119, 97, 121>>

\* The step in which the upstream request of connection c, still without a
\* response, fails.
UpstreamFails(c) == conn[c].upstream = "pending" /\ conn'[c].upstream = "failed"

\* C18: when the upstream request of proxyRequest fails before any response,
\* a client that can still be written to is sent a response whose status line
\* is 'HTTP/1.1 502 Bad Gateway' and whose body is 'Bad Gateway', the client
\* connection is ended, and the process keeps running.
C18_UpstreamErrorIs502 ==
    [][\A c \in ConnIds :
          UpstreamFails(c) =>
              /\ process' = "running"
              /\ Writable(client[c]) =>
                    /\ Len(clientOut'[c]) = Len(clientOut[c]) + 2
                    /\ SubSeq(clientOut'[c], 1, Len(clientOut[c])) = clientOut[c]
                    /\ StartsWith(clientOut'[c][Len(clientOut[c]) + 1], Str502Line)
                    /\ clientOut'[c][Len(clientOut[c]) + 2] = StrBadGateway
                    /\ client'[c].wEnd
              /\ ~Writable(client'[c])]_vars

\* C18 witness: an upstream request has failed with its client still
\* connected; the client was sent the 502 head and the body, its connection
\* is ended, and the process is running.
C18_Witness ==
    \E c \in ConnIds :
        /\ conn[c].upstream = "failed"
        /\ Len(clientOut[c]) = 2
        /\ StartsWith(clientOut[c][1], Str502Line)
        /\ clientOut[c][2] = StrBadGateway
        /\ client[c].wEnd
        /\ process = "running"


EmptyFirstChunk(c) == conn[c].proto # "none" /\ hist[c].firstData = EmptyChunk

EmptyChunkNoTunnel ==
    \A c \in ConnIds :
        EmptyFirstChunk(c) => target[c].st = "none" /\ conn[c].upstream = "none"


\* The text of tgt before its first ':' (all of it when it has none).
HostPart(tgt) == SubSeq(tgt, 1, FirstOf(tgt, {58}) - 1)

\* The text of tgt after its first ':' (nothing when it has none).
AfterColon(tgt) == SubSeq(tgt, FirstOf(tgt, {58}) + 1, Len(tgt))

\* The text of tgt between its first ':' and the next one.
PortText(tgt) == SubSeq(AfterColon(tgt), 1, FirstOf(AfterColon(tgt), {58}) - 1)

\* The decimal digits a text starts with.
LeadingDigits(str) ==
    SubSeq(str, 1, FirstOf(str, (0..255) \ (48..57)) - 1)

\* The number a text of decimal digits writes (0 for the empty text).
RECURSIVE NumberOf(_)
NumberOf(str) ==
    IF str = <<>> THEN 0 ELSE 10 * NumberOf(SubSeq(str, 1, Len(str) - 1)) + (str[Len(str)] - 48)

\* A text made of decimal digits only, at least one.
IsNumber(str) == str # <<>> /\ LeadingDigits(str) = str

\* The connection of c was attempted to that host and port.
AttemptedTo(c, host, port) ==
    target[c].st # "none" /\ target[c].host = host /\ target[c].port = port

SignedOrHex(str) ==
    \/ Len(str) >= 1 /\ str[1] \in {43, 45}
    \/ Len(str) >= 2 /\ str[1] = 48 /\ str[2] \in {88, 120}

C22_AllowListFailureReply ==
    \A c \in ConnIds :
        (/\ conn[c].proto = "allowlist" /\ conn[c].route = "permitted"
         /\ hist[c].outcome = "failed" /\ hist[c].heard) =>
            clientOut[c] = <<Str502BadGateway>>

\* What the 'error' listener of the allow-list server does write: the line
\* 'HTTP/1.1 500 Connection Failed\r\n\r\n', after which the client is ended.
AllowListFailureIs500 ==
    \A c \in ConnIds :
        (/\ conn[c].proto = "allowlist" /\ conn[c].route = "permitted"
         /\ hist[c].outcome = "failed" /\ hist[c].heard) =>
            clientOut[c] = <<Str500ConnectionFailed>> /\ client[c].wEnd


\* The names of the four counters.
Counters == {"httpRequests", "socks5Connections", "connectTunnels", "errors"}

\* C23: in every step each of the four counters is unchanged or larger; no
\* step, the shutdown included, sets one back.
C23_CountersNeverDecrease ==
    [][\A k \in Counters : stats'[k] >= stats[k]]_vars

\* C23 witness: a request and an error have been counted, stop() has run and
\* the process has exited, and the counters still hold their values.
C23_Witness ==
    /\ process = "exited"
    /\ stats.httpRequests >= 1 /\ stats.errors >= 1


\* The phases of a SOCKS5 connection, in order.
PhaseRank(step) ==
    CASE step = "handshake" -> 0
      [] step = "auth" -> 1
      [] step = "request" -> 2
      [] step = "tunnel" -> 3

\* The moves from one phase to the next: to 'auth' only with authentication
\* configured, straight to 'request' only without it.
PhaseAdvance(from, to) ==
    \/ from = "handshake" /\ to = "auth" /\ socks5Auth.set
    \/ from = "handshake" /\ to = "request" /\ ~socks5Auth.set
    \/ from = "auth" /\ to = "request"
    \/ from = "request" /\ to = "tunnel"

\* What the protocol handlers have read and done for connection c: the
\* messages taken as handshake, authentication and request, and the target
\* chosen.
Negotiated(c) ==
    <<hist[c].handlerData, hist[c].authSeen, hist[c].authData, hist[c].reqSeen, hist[c].reqData,
      hist[c].created, target[c].host, target[c].port>>

\* A step in which the phase of every connection stays or advances by one of
\* the moves above, and in which, from phase 'tunnel' on, the phase stays and
\* nothing is taken as handshake, authentication or request or creates
\* another target connection.
PhaseStep ==
    \A c \in ConnIds :
        /\ conn'[c].step # conn[c].step => PhaseAdvance(conn[c].step, conn'[c].step)
        /\ conn[c].step = "tunnel" =>
              conn'[c].step = "tunnel" /\ Negotiated(c)' = Negotiated(c)

\* Every connection is in one of the four phases, a SOCKS5 connection has a
\* target connection from phase 'tunnel' on and not before, and at most one
\* target connection has been created for a client connection.
OnePhaseOneTarget ==
    \A c \in ConnIds :
        /\ conn[c].step \in {"handshake", "auth", "request", "tunnel"}
        /\ hist[c].created <= 1
        /\ conn[c].proto = "socks5" =>
              (hist[c].created = 1 <=> conn[c].step = "tunnel")

\* C24: a SOCKS5 connection is in exactly one phase at a time and phases only
\* advance (handshake, auth only with authentication configured, request,
\* tunnel); from phase 'tunnel' on no client data is taken as a handshake,
\* authentication or request message; and at most one target connection is
\* created per client connection.
C24_SOCKS5Phases == []OnePhaseOneTarget /\ [][PhaseStep]_vars

\* C24 witness: a SOCKS5 connection that went through authentication is in
\* phase 'tunnel' with its one target connection open, and a chunk the
\* client sent after the request was relayed to the target as it is.
C24_Witness ==
    \E c \in ConnIds :
        /\ conn[c].proto = "socks5" /\ conn[c].step = "tunnel"
        /\ hist[c].authSeen /\ hist[c].reqSeen /\ hist[c].created = 1
        /\ target[c].st = "open"
        /\ targetIn[c] # <<>>


\* The bytes of a chunk after its header block (after the first empty line).
AfterHeaderBlock(data) ==
    LET k == IndexOf(data, CRLF \o CRLF)
    IN  IF k < 0 THEN <<>> ELSE SubSeq(data, k + 5, Len(data))

\* C25: in a CONNECT tunnel of the unified server that has been established
\* with the target open for writing, the bytes of the first chunk after the
\* CONNECT header block are the first thing the target is sent.
C25_EarlyBytesForwarded ==
    \A c \in ConnIds :
        (/\ conn[c].route = "connect" /\ conn[c].piped
         /\ target[c].st = "open" /\ ~target[c].wEnd
         /\ AfterHeaderBlock(hist[c].firstData) # <<>>) =>
            targetIn[c] # <<>> /\ targetIn[c][1] = AfterHeaderBlock(hist[c].firstData)

\* The allow-list server does pass them on: the head buffer of the 'connect'
\* event is the first thing written to the target.
AllowListHeadForwarded ==
    \A c \in ConnIds :
        (conn[c].proto = "allowlist" /\ conn[c].piped /\ conn[c].head # <<>>) =>
            targetIn[c] # <<>> /\ targetIn[c][1] = conn[c].head


\* C26: the upstream request made for a proxied request was sent, before it
\* was ended, the body bytes that came with the client's request.
C26_RequestBodyForwarded ==
    \A c \in ConnIds :
        conn[c].upstream # "none" =>
            conn[c].upstreamBody = AfterHeaderBlock(hist[c].firstData)

\* The part that holds: a proxied request without a body is sent upstream
\* without one.
BodilessRequestForwarded ==
    \A c \in ConnIds :
        (conn[c].upstream # "none" /\ AfterHeaderBlock(hist[c].firstData) = <<>>) =>
            conn[c].upstreamBody = <<>>


\* The state of a /smart-proxy request is sound: at most one response, sent
\* exactly when the handler is done; at most CF_WORKERS.length attempts and
\* calls; a 500 only after the last attempt has failed, any other response
\* either the 400 of a request without target or the result of the last
\* worker called.
OneResponse(r) ==
    LET q == requests[r]
    IN  /\ Len(q.responses) <= 1
        /\ (q.pc = "done") <=> (Len(q.responses) = 1)
        /\ q.attempts <= Len(CF_WORKERS) /\ Len(q.tried) <= Len(CF_WORKERS)
        /\ q.pc = "done" =>
              \/ q.responses[1].status = 400 /\ q.tried = <<>>
              \/ q.responses[1].status = 500 /\ q.attempts = Len(CF_WORKERS)
              \/ /\ q.responses[1].via = CF_WORKERS[q.tried[Len(q.tried)] + 1]
                 /\ q.attempts = Len(q.tried) - 1

C28_EachWorkerOnce ==
    \A r \in RequestIds :
        LET q == requests[r]
        IN  /\ \A i, j \in 1..Len(q.tried) : i # j => q.tried[i] # q.tried[j]
            /\ (q.pc = "done" /\ q.responses[1].status = 500) =>
                  {q.tried[i] : i \in 1..Len(q.tried)} = 0..(Len(CF_WORKERS) - 1)

\* The same of a request that runs alone (the other one never arrives).
EachWorkerOnceAlone ==
    \A r, o \in RequestIds :
        (r # o /\ requests[o].pc = "idle") =>
            LET q == requests[r]
            IN  /\ \A i, j \in 1..Len(q.tried) : i # j => q.tried[i] # q.tried[j]
                /\ (q.pc = "done" /\ q.responses[1].status = 500) =>
                      {q.tried[i] : i \in 1..Len(q.tried)} = 0..(Len(CF_WORKERS) - 1)


\* The first chunk of connection c has been classified.
Classified(c) == hist[c].handler # "none"

\* The number of connections whose first chunk has been classified.
ClassifiedCount == Cardinality({c \in Conns : Classified(c)})

\* A step counts under exactly one protocol, by one, each connection whose
\* first chunk it classifies, and counts nothing for a connection already
\* classified.
CountsOnce ==
    LET newly == {c \in Conns : ~Classified(c) /\ Classified(c)'}
        dHttp == stats'.httpRequests - stats.httpRequests
        dSocks == stats'.socks5Connections - stats.socks5Connections
    IN  /\ dHttp \in {0, 1} /\ dSocks \in {0, 1}
        /\ dHttp + dSocks = Cardinality(newly)
        /\ \A c \in newly :
              (dSocks = 1) <=> (hist'[c].handler = "socks5")

\* C29: every connection whose first chunk is classified is counted once, in
\* httpRequests or in socks5Connections and not in both, and never again for
\* later data; httpRequests + socks5Connections is always the number of
\* connections classified.
C29_OneCountPerConnection ==
    /\ [](stats.httpRequests + stats.socks5Connections = ClassifiedCount)
    /\ [][CountsOnce]_vars

\* C29 witness: two connections classified, one as SOCKS5 that has gone on
\* to its request and phase 'tunnel', one as HTTP; each counter is 1.
C29_Witness ==
    /\ stats.httpRequests = 1 /\ stats.socks5Connections = 1
    /\ \E c, o \in Conns :
          /\ hist[c].handler = "socks5" /\ hist[c].reqSeen /\ conn[c].step = "tunnel"
          /\ hist[o].handler = "http"


\* The sockets as the registry could hold them: the client socket of
\* connection c is named by c, its target socket by -c.
ClientSocket(c) == c
TargetSocket(c) == 0 - c

\* C30: the registry holds only client sockets that were accepted and have
\* emitted neither 'close' nor 'error', and no target socket; once stop() has
\* run the registry is empty and no accepted client socket is left open.
C30_RegistryMembers ==
    /\ \A c \in Conns :
          /\ ClientSocket(c) \in connections =>
                client[c].st \in {"open", "destroyed"} /\ ~hist[c].errored
          /\ TargetSocket(c) \notin connections
    /\ connections \subseteq {ClientSocket(c) : c \in Conns}
    /\ process = "exited" =>
          connections = {} /\ \A c \in Conns : client[c].st \in {"idle", "destroyed", "closed"}

\* C30 witness: stop() has run on a registry that held the client socket of
\* an established tunnel; the registry is empty and the socket destroyed.
C30_Witness ==
    \E c \in Conns :
        /\ process = "exited" /\ connections = {}
        /\ conn[c].piped /\ hist[c].outcome = "connected"
        /\ client[c].st = "destroyed" /\ ~hist[c].errored


\* A step that hands the target of connection c a chunk is a step taken with
\* the pipes attached, and hands it one chunk, the one just read.
RelaysOnlyWhenPiped ==
    \A c \in Conns :
        targetIn'[c] # targetIn[c] =>
            /\ conn[c].piped
            /\ Len(targetIn'[c]) = Len(targetIn[c]) + 1
            /\ hist'[c].dropped = hist[c].dropped

\* Nothing has been handed to a target whose pipes are not attached.
NothingBeforePipes == \A c \in Conns : ~conn[c].piped => targetIn[c] = <<>>

\* C31: a chunk the client sends after its first chunk and before the target
\* is connected is neither kept nor forwarded: the target is handed nothing
\* until the pipes are attached, attaching them hands it nothing, and from
\* then on each step hands it only the chunk read in that step.
C31_EarlyChunksNotForwarded == []NothingBeforePipes /\ [][RelaysOnlyWhenPiped]_vars

\* C31 witness, CONNECT: a chunk came while the target was connecting, the
\* tunnel is now established and the target has been handed nothing.
C31_Witness ==
    \E c \in Conns :
        /\ conn[c].route = "connect" /\ conn[c].piped
        /\ hist[c].dropped # <<>> /\ targetIn[c] = <<>>

\* The same for SOCKS5, and a later chunk has been relayed: the target holds
\* one chunk although the client sent two after the request.
EarlyChunkLostSOCKS5 ==
    \E c \in Conns :
        /\ conn[c].proto = "socks5" /\ conn[c].piped
        /\ Len(hist[c].dropped) = 1 /\ Len(targetIn[c]) = 1


\* The connections whose first chunk was a CONNECT request with a target
\* string (req.url is defined, so that split(':') returns).
SplitConnects ==
    {c \in Conns : /\ conn[c].route = "connect"
                   /\ parseHTTPRequest(hist[c].handlerData).hasUrl}

\* The CONNECT tunnels that were established.
EstablishedConnects ==
    {c \in Conns : conn[c].route = "connect" /\ hist[c].outcome = "connected"}

\* connectTunnels counts the CONNECT requests with a target string, which
\* include every established CONNECT tunnel.
CountsSplitConnects ==
    /\ stats.connectTunnels = Cardinality(SplitConnects)
    /\ EstablishedConnects \subseteq SplitConnects
    /\ stats.connectTunnels >= Cardinality(EstablishedConnects)

\* A step that changes connectTunnels adds one, and is the step in which a
\* CONNECT request is handled: its outcome is not known yet.
CountedAtAttempt ==
    stats'.connectTunnels # stats.connectTunnels =>
        /\ stats'.connectTunnels = stats.connectTunnels + 1
        /\ \E c \in Conns :
              /\ conn[c].route = "none" /\ conn'[c].route = "connect"
              /\ hist'[c].outcome = "none"
              /\ target[c].st = "none"

\* C32: connectTunnels is incremented once for each CONNECT request whose
\* target string could be split, in the step that starts the attempt and
\* before its outcome; it counts the attempts, those ending in 502 included,
\* and is never less than the number of established CONNECT tunnels.
C32_ConnectTunnelsCountsAttempts == []CountsSplitConnects /\ [][CountedAtAttempt]_vars

\* C32 witness: two CONNECT requests were counted, one whose tunnel was
\* established and one that ended in 502.
C32_Witness ==
    /\ stats.connectTunnels = 2
    /\ Cardinality(EstablishedConnects) = 1
    /\ \E c \in SplitConnects :
          /\ hist[c].outcome # "connected"
          /\ \E i \in DOMAIN clientOut[c] : clientOut[c][i] = Str502BadGateway

\* A CONNECT request without a target string is not counted.
BareConnectNotCounted ==
    (\A c \in Conns : conn[c].route = "connect" /\ c \notin SplitConnects)
        => stats.connectTunnels = 0

\* Both requests were without a target string.
BareConnectsSeen == \A c \in Conns : conn[c].route = "connect" /\ c \notin SplitConnects

====
